---- MODULE Spec2Model ----
(***************************************************************************)
(* A model of the two-stage C front end: the lexical scanner               *)
(* (src/src/scanner.cpp), the token interchange file it writes, and the    *)
(* recursive-descent parser (src/src/C_lange_Parser_in_Cpp.cpp) with its   *)
(* token loader.                                                           *)
(*                                                                         *)
(* Characters are one-character strings, a text is a sequence of them, and *)
(* indices into a text are 0-based as in the C++ source.                   *)
(***************************************************************************)
EXTENDS Integers, Sequences, FiniteSets, TLC

VARIABLES
    \* ---- scanner program (scanner.cpp) ----
    source_code,                \* the text read from the .c file
    current_char_index,         \* scan's cursor
    current_line,               \* global line counter
    tokens,                     \* global token vector
    spans,                      \* history: <<first, past-last>> source index of each token
    unexpected_char_error,      \* global flag
    unexpected_char,            \* global: the offending character
    unterminated_comment_error, \* global flag
    s_pc,                       \* position of the scanner program
    s_exit,                     \* exit status of the scanner program (-1: running)
    tokens_txt,                 \* the file tokens.txt: [exists, content]
    \* ---- parser program (C_lange_Parser_in_Cpp.cpp) ----
    loaded,                     \* result of load_tokens_from_file on tokens.txt
    m_tokens,                   \* the token vector handed to Parser
    p_pc,                       \* position of the parser program
    p_result,                   \* what Parser::parse returned and printed
    p_exit                      \* exit status of the parser program (-1: running)

scan_vars == <<source_code, current_char_index, current_line, tokens, spans,
               unexpected_char_error, unexpected_char,
               unterminated_comment_error, s_pc, s_exit, tokens_txt, loaded>>
parse_vars == <<m_tokens, p_pc, p_result, p_exit>>
vars == <<scan_vars, parse_vars>>

-----------------------------------------------------------------------------
(* Bounds of the model *)

\* longest source text enumerated exhaustively over each alphabet
MaxSrc == 4

-----------------------------------------------------------------------------
(* Character classes of <cctype> in the "C" locale *)

Digits == {"0", "1", "2", "3", "4", "5", "6", "7", "8", "9"}

Letters ==
    {"a","b","c","d","e","f","g","h","i","j","k","l","m",
     "n","o","p","q","r","s","t","u","v","w","x","y","z",
     "A","B","C","D","E","F","G","H","I","J","K","L","M",
     "N","O","P","Q","R","S","T","U","V","W","X","Y","Z"}

isspace(c) == c \in {" ", "\n", "\t", "\r", "\f"}
isdigit(c) == c \in Digits
isalpha(c) == c \in Letters
isalnum(c) == isalpha(c) \/ isdigit(c)

-----------------------------------------------------------------------------
(* The vocabularies of scan *)

keywords ==
    {<<"a","u","t","o">>,
     <<"b","r","e","a","k">>,
     <<"c","a","s","e">>,
     <<"c","h","a","r">>,
     <<"c","o","n","s","t">>,
     <<"c","o","n","t","i","n","u","e">>,
     <<"d","e","f","a","u","l","t">>,
     <<"d","o">>,
     <<"d","o","u","b","l","e">>,
     <<"e","l","s","e">>,
     <<"e","n","u","m">>,
     <<"e","x","t","e","r","n">>,
     <<"f","l","o","a","t">>,
     <<"f","o","r">>,
     <<"g","o","t","o">>,
     <<"i","f">>,
     <<"i","n","t">>,
     <<"l","o","n","g">>,
     <<"r","e","g","i","s","t","e","r">>,
     <<"r","e","t","u","r","n">>,
     <<"s","h","o","r","t">>,
     <<"s","i","g","n","e","d">>,
     <<"s","i","z","e","o","f">>,
     <<"s","t","a","t","i","c">>,
     <<"s","t","r","u","c","t">>,
     <<"s","w","i","t","c","h">>,
     <<"t","y","p","e","d","e","f">>,
     <<"u","n","i","o","n">>,
     <<"u","n","s","i","g","n","e","d">>,
     <<"v","o","i","d">>,
     <<"v","o","l","a","t","i","l","e">>,
     <<"w","h","i","l","e">>}

single_char_operators ==
    {"+", "-", "*", "/", "=", "<", ">", "%", "^", "|", "&", "~", "!"}

multi_char_operators ==
    {<<"+","+">>, <<"-","-">>, <<"<","<">>, <<">",">">>, <<"=","=">>,
     <<"&","&">>, <<"|","|">>, <<"+","=">>, <<"-","=">>, <<"*","=">>,
     <<"/","=">>, <<"%","=">>, <<"&","=">>, <<"|","=">>, <<"^","=">>,
     <<"<","<","=">>, <<">",">","=">>, <<"!","=">>, <<">","=">>,
     <<"<","=">>, <<"p","o","w">>}

\* a faulty variant: the single quote is a special character
special_chars_WithQuote == {"(", ")", "{", "}", ";", ",", "#", ".", "[", "]", "'"}

special_chars == {"(", ")", "{", "}", ";", ",", "#", ".", "[", "]"}

-----------------------------------------------------------------------------
(* Source texts the scanner is run on *)

\* the alphabets the short sources are drawn from, one per group of rules
Alphabets ==
    { {"\n", " ", "/", "*", "a", "#"},      \* whitespace, comments, directives
      {"<", "=", "+", "/", "*", "!"},       \* operators and maximal munch
      {"p", "o", "w", "d", "_", "1"},       \* words, keywords, the pow operator
      {"1", ".", "a", "\n", ",", "$"},      \* numbers, radix points, errors
      {"'", "a", "1", ";", "$", " "},       \* quotes and special characters
      {"/", "*", "\n", ";", "#", ","} }     \* comments against tokens and lines

ShortSources ==
    UNION { UNION { [1..n -> A] : n \in 0..MaxSrc } : A \in Alphabets }

\* longer texts: the numbers of test_edge_cases.c, a token on line 10,
\* two block comments, a directive holding commas
SeedSources ==
    { <<"0",".","2","2",".","3","3","\n","3","3","3","\n","4","5","6">>,
      <<"\n","\n","\n","\n","\n","\n","\n","\n","\n",",","\n","a">>,
      <<"/","*","\n","*","/","a","/","*","*","/","\n","/","/","a","\n","<","<","=">>,
      <<"#","a",","," ",",","b","\n","i","n","t"," ","p","o","w","e","r",";">> }

Sources == ShortSources \cup SeedSources

-----------------------------------------------------------------------------
(* Reading the source text *)

SrcLen == Len(source_code)

\* source_code[i] for i < length
At(i) == source_code[i + 1]

\* source_code[i] as std::string gives it: the terminating NUL at i = length
Rd(i) == IF i < SrcLen THEN At(i) ELSE "NUL"

\* source_code.substr(i, n) for i <= length
substr(i, n) ==
    SubSeq(source_code, i + 1, IF i + n < SrcLen THEN i + n ELSE SrcLen)

Token(value, type, linenum) ==
    [token_value |-> value, token_class |-> type, line_number |-> linenum]

addToken(toks, value, type, linenum) == Append(toks, Token(value, type, linenum))

-----------------------------------------------------------------------------
(* The inner loops of scan, as functions of the index they start at *)

\* while (i < length && source_code[i] != '\n') i++;
RECURSIVE SkipToNewline(_)
SkipToNewline(i) ==
    IF i < SrcLen /\ At(i) # "\n" THEN SkipToNewline(i + 1) ELSE i

\* the search for the closing */ of a block comment
RECURSIVE SkipBlockComment(_, _)
SkipBlockComment(i, line) ==
    IF i + 1 < SrcLen /\ ~(At(i) = "*" /\ At(i + 1) = "/")
    THEN SkipBlockComment(i + 1, IF At(i) = "\n" THEN line + 1 ELSE line)
    ELSE [index |-> i, line |-> line]

\* while (i < length && (isalnum(source_code[i]) || source_code[i] == '_')) i++;
RECURSIVE WordEnd(_)
WordEnd(i) ==
    IF i < SrcLen /\ (isalnum(At(i)) \/ At(i) = "_") THEN WordEnd(i + 1) ELSE i

\* while (i < length && isdigit(source_code[i])) i++;
RECURSIVE DigitsEnd(_)
DigitsEnd(i) ==
    IF i < SrcLen /\ isdigit(At(i)) THEN DigitsEnd(i + 1) ELSE i

\* the segmenting loop of the numeric rule; st is the loop's state
RECURSIVE NumberLoop(_)
NumberLoop(st) ==
    LET i == st.index IN
    IF i < SrcLen /\ (isdigit(At(i)) \/ At(i) = ".")
    THEN IF At(i) = "."
         THEN LET e   == DigitsEnd(i + 1)
                  num == st.number \o SubSeq(source_code, i + 1, e)
              IN NumberLoop([index |-> e,
                             number |-> <<>>,
                             has_radix_point |-> TRUE,
                             toks |-> addToken(st.toks, num, "NUMERIC CONSTANT", current_line),
                             spans |-> Append(st.spans, <<e - Len(num), e>>)])
         ELSE NumberLoop([st EXCEPT !.index = i + 1,
                                    !.number = Append(st.number, At(i))])
    ELSE st

-----------------------------------------------------------------------------
(* The dispatch conditions of scan's main loop, in the order it tests them *)

AtLoopHead == s_pc = "loop" /\ current_char_index < SrcLen

currentChar == At(current_char_index)

IsNewline == currentChar = "\n"
IsSpace == ~IsNewline /\ isspace(currentChar)
HasNext == currentChar = "/" /\ current_char_index + 1 < SrcLen
IsLineComment == HasNext /\ At(current_char_index + 1) = "/"
IsBlockComment == HasNext /\ At(current_char_index + 1) = "*"
IsDirective == currentChar = "#"

\* the position is past checks 1-3: whitespace, comments, directives
PastChecks123 ==
    ~isspace(currentChar) /\ ~IsLineComment /\ ~IsBlockComment /\ ~IsDirective

IsTripleOp ==
    /\ current_char_index + 2 < SrcLen
    /\ substr(current_char_index, 3) \in multi_char_operators
\* a faulty variant: the two-character rule tried without regard to the three-character one
IsDoubleOp_First ==
    /\ current_char_index + 1 < SrcLen
    /\ substr(current_char_index, 2) \in multi_char_operators

IsDoubleOp ==
    /\ ~IsTripleOp
    /\ current_char_index + 1 < SrcLen
    /\ substr(current_char_index, 2) \in multi_char_operators
IsSingleOp ==
    ~IsTripleOp /\ ~IsDoubleOp /\ currentChar \in single_char_operators
IsSpecial ==
    /\ ~IsTripleOp /\ ~IsDoubleOp /\ ~IsSingleOp
    /\ currentChar \in special_chars

PastCheck4 == ~IsTripleOp /\ ~IsDoubleOp /\ ~IsSingleOp /\ ~IsSpecial

IsWord == PastCheck4 /\ (isalpha(currentChar) \/ currentChar = "_")
IsNumber ==
    /\ PastCheck4 /\ ~IsWord
    /\ \/ isdigit(currentChar)
       \/ currentChar = "." /\ isdigit(Rd(current_char_index + 1))

-----------------------------------------------------------------------------
(* The scanner program: main calls scan, then writes tokens.txt *)

flags == <<unexpected_char_error, unexpected_char, unterminated_comment_error>>
not_scan == <<source_code, s_exit, tokens_txt, loaded, parse_vars>>

\* scan entered: the empty-source test
ScanEnter ==
    /\ s_pc = "scan"
    /\ IF source_code = <<>>
       THEN current_line' = 0 /\ s_pc' = "main"
       ELSE current_line' = 1 /\ s_pc' = "loop"
    /\ UNCHANGED <<current_char_index, tokens, spans, flags, not_scan>>

\* the while condition fails: scan returns
ScanReturn ==
    /\ s_pc = "loop"
    /\ ~(current_char_index < SrcLen)
    /\ s_pc' = "main"
    /\ UNCHANGED <<current_char_index, current_line, tokens, spans, flags, not_scan>>

\* a faulty variant: a newline that follows a newline is not counted
Newline_BlankUncounted ==
    /\ AtLoopHead /\ IsNewline
    /\ current_line' = IF current_char_index > 0 /\ At(current_char_index - 1) = "\n"
                       THEN current_line
                       ELSE current_line + 1
    /\ current_char_index' = current_char_index + 1
    /\ UNCHANGED <<tokens, spans, flags, s_pc, not_scan>>

\* Check 1: a newline
Newline ==
    /\ AtLoopHead /\ IsNewline
    /\ current_line' = current_line + 1
    /\ current_char_index' = current_char_index + 1
    /\ UNCHANGED <<tokens, spans, flags, s_pc, not_scan>>

\* a faulty variant: a blank is tested and the cursor is left on it
Whitespace_Stay ==
    /\ AtLoopHead /\ IsSpace
    /\ UNCHANGED <<current_char_index, current_line, tokens, spans, flags, s_pc, not_scan>>

\* Check 1: other whitespace
Whitespace ==
    /\ AtLoopHead /\ IsSpace
    /\ current_char_index' = current_char_index + 1
    /\ UNCHANGED <<current_line, tokens, spans, flags, s_pc, not_scan>>

\* Check 2, case A: a single-line comment
LineComment ==
    /\ AtLoopHead /\ ~isspace(currentChar) /\ IsLineComment
    /\ LET start_line == current_line
           e == SkipToNewline(current_char_index)
       IN /\ current_char_index' = e
          /\ tokens' = addToken(tokens, <<"/", "/">>, "Single-Line Comment", start_line)
          /\ spans' = Append(spans, <<current_char_index, e>>)
    /\ UNCHANGED <<current_line, flags, s_pc, not_scan>>

\* a faulty variant: the search for the closer starts inside the opening delimiter
BlockComment_NoSkip ==
    /\ AtLoopHead /\ ~isspace(currentChar) /\ IsBlockComment
    /\ LET start_line == current_line
           r == SkipBlockComment(current_char_index + 1, current_line)
       IN /\ current_line' = r.line
          /\ IF r.index + 1 >= SrcLen
             THEN /\ unterminated_comment_error' = TRUE
                  /\ current_char_index' = r.index
                  /\ s_pc' = "main"
                  /\ UNCHANGED <<tokens, spans>>
             ELSE /\ current_char_index' = r.index + 2
                  /\ tokens' = addToken(tokens, <<"/","*"," ",".","."," ","*","/">>,
                                        "Multi-Line Comment", start_line)
                  /\ spans' = Append(spans, <<current_char_index, r.index + 2>>)
                  /\ UNCHANGED <<unterminated_comment_error, s_pc>>
    /\ UNCHANGED <<unexpected_char_error, unexpected_char, not_scan>>

\* a faulty variant: the comment's newlines are counted locally; the token is stamped
\* with the closing line and the global counter is left behind
BlockComment_LocalCount ==
    /\ AtLoopHead /\ ~isspace(currentChar) /\ IsBlockComment
    /\ LET r == SkipBlockComment(current_char_index + 2, current_line)
       IN /\ current_line' = current_line
          /\ IF r.index + 1 >= SrcLen
             THEN /\ unterminated_comment_error' = TRUE
                  /\ current_char_index' = r.index
                  /\ s_pc' = "main"
                  /\ UNCHANGED <<tokens, spans>>
             ELSE /\ current_char_index' = r.index + 2
                  /\ tokens' = addToken(tokens, <<"/","*"," ",".","."," ","*","/">>,
                                        "Multi-Line Comment", r.line)
                  /\ spans' = Append(spans, <<current_char_index, r.index + 2>>)
                  /\ UNCHANGED <<unterminated_comment_error, s_pc>>
    /\ UNCHANGED <<unexpected_char_error, unexpected_char, not_scan>>

\* a faulty variant: the comment token is stamped with the line its closing delimiter is on
BlockComment_EndLine ==
    /\ AtLoopHead /\ ~isspace(currentChar) /\ IsBlockComment
    /\ LET r == SkipBlockComment(current_char_index + 2, current_line)
       IN /\ current_line' = r.line
          /\ IF r.index + 1 >= SrcLen
             THEN /\ unterminated_comment_error' = TRUE
                  /\ current_char_index' = r.index
                  /\ s_pc' = "main"
                  /\ UNCHANGED <<tokens, spans>>
             ELSE /\ current_char_index' = r.index + 2
                  /\ tokens' = addToken(tokens, <<"/","*"," ",".","."," ","*","/">>,
                                        "Multi-Line Comment", r.line)
                  /\ spans' = Append(spans, <<current_char_index, r.index + 2>>)
                  /\ UNCHANGED <<unterminated_comment_error, s_pc>>
    /\ UNCHANGED <<unexpected_char_error, unexpected_char, not_scan>>

\* Check 2, case B: a block comment, closed or not
BlockComment ==
    /\ AtLoopHead /\ ~isspace(currentChar) /\ IsBlockComment
    /\ LET start_line == current_line
           r == SkipBlockComment(current_char_index + 2, current_line)
       IN /\ current_line' = r.line
          /\ IF r.index + 1 >= SrcLen
             THEN /\ unterminated_comment_error' = TRUE
                  /\ current_char_index' = r.index
                  /\ s_pc' = "main"
                  /\ UNCHANGED <<tokens, spans>>
             ELSE /\ current_char_index' = r.index + 2
                  /\ tokens' = addToken(tokens, <<"/","*"," ",".","."," ","*","/">>,
                                        "Multi-Line Comment", start_line)
                  /\ spans' = Append(spans, <<current_char_index, r.index + 2>>)
                  /\ UNCHANGED <<unterminated_comment_error, s_pc>>
    /\ UNCHANGED <<unexpected_char_error, unexpected_char, not_scan>>

\* Check 3: a preprocessor directive
Directive ==
    /\ AtLoopHead /\ ~isspace(currentChar) /\ ~IsLineComment /\ ~IsBlockComment
    /\ IsDirective
    /\ LET e == SkipToNewline(current_char_index)
           directive == SubSeq(source_code, current_char_index + 1, e)
       IN /\ current_char_index' = e
          /\ tokens' = addToken(tokens, directive, "PREPROCESSOR DIRECTIVE", current_line)
          /\ spans' = Append(spans, <<current_char_index, e>>)
    /\ UNCHANGED <<current_line, flags, s_pc, not_scan>>

\* the operator rules emit the n characters at the cursor
EmitOperator(n) ==
    /\ tokens' = addToken(tokens, substr(current_char_index, n), "OPERATOR", current_line)
    /\ spans' = Append(spans, <<current_char_index, current_char_index + n>>)
    /\ current_char_index' = current_char_index + n
    /\ UNCHANGED <<current_line, flags, s_pc, not_scan>>

\* Check 4 A: a three-character operator
TripleOperator == AtLoopHead /\ PastChecks123 /\ IsTripleOp /\ EmitOperator(3)

\* Check 4 B: a two-character operator
DoubleOperator == AtLoopHead /\ PastChecks123 /\ IsDoubleOp /\ EmitOperator(2)

\* Check 4: a one-character operator
SingleOperator == AtLoopHead /\ PastChecks123 /\ IsSingleOp /\ EmitOperator(1)

\* Check 4: a special character, with the CHAR_LITERAL side path
SpecialCharacter ==
    /\ AtLoopHead /\ PastChecks123 /\ IsSpecial
    /\ LET t1 == addToken(tokens, <<currentChar>>, "SPECIAL CHARACTER", current_line)
           s1 == Append(spans, <<current_char_index, current_char_index + 1>>)
       IN IF /\ currentChar = "'"
             /\ isalnum(Rd(current_char_index + 1))
             /\ ~isalnum(Rd(current_char_index + 2))
             /\ Rd(current_char_index + 2) # "_"
          THEN /\ tokens' = addToken(t1, <<Rd(current_char_index + 1)>>,
                                     "CHAR_LITERAL", current_line)
               /\ spans' = Append(s1, <<current_char_index + 1, current_char_index + 2>>)
               /\ current_char_index' = current_char_index + 2
          ELSE /\ tokens' = t1
               /\ spans' = s1
               /\ current_char_index' = current_char_index + 1
    /\ UNCHANGED <<current_line, flags, s_pc, not_scan>>

\* Check 5: an identifier or a keyword
Word ==
    /\ AtLoopHead /\ PastChecks123 /\ IsWord
    /\ LET e == WordEnd(current_char_index)
           word == SubSeq(source_code, current_char_index + 1, e)
       IN /\ current_char_index' = e
          /\ tokens' = addToken(tokens, word,
                                IF word \in keywords THEN "KEYWORD" ELSE "IDENTIFIER",
                                current_line)
          /\ spans' = Append(spans, <<current_char_index, e>>)
    /\ UNCHANGED <<current_line, flags, s_pc, not_scan>>

\* Check 6: numeric constants, scenario #2
Number ==
    /\ AtLoopHead /\ PastChecks123 /\ IsNumber
    /\ LET r == NumberLoop([index |-> current_char_index,
                            number |-> <<>>,
                            has_radix_point |-> FALSE,
                            toks |-> tokens,
                            spans |-> spans])
       IN /\ current_char_index' = r.index
          /\ IF ~r.has_radix_point
             THEN /\ tokens' = addToken(r.toks, r.number, "NUMERIC CONSTANT", current_line)
                  /\ spans' = Append(r.spans, <<r.index - Len(r.number), r.index>>)
             ELSE /\ tokens' = r.toks
                  /\ spans' = r.spans
    /\ UNCHANGED <<current_line, flags, s_pc, not_scan>>

\* a faulty variant: the flag is set but the loop moves past the character and goes on
Unexpected_Continue ==
    /\ AtLoopHead /\ PastChecks123 /\ PastCheck4 /\ ~IsWord /\ ~IsNumber
    /\ unexpected_char' = At(current_char_index)
    /\ unexpected_char_error' = TRUE
    /\ current_char_index' = current_char_index + 1
    /\ UNCHANGED <<current_line, tokens, spans, s_pc,
                   unterminated_comment_error, not_scan>>

\* Check 7: an unexpected character ends the loop
Unexpected ==
    /\ AtLoopHead /\ PastChecks123 /\ PastCheck4 /\ ~IsWord /\ ~IsNumber
    /\ unexpected_char' = At(current_char_index)
    /\ unexpected_char_error' = TRUE
    /\ s_pc' = "main"
    /\ UNCHANGED <<current_char_index, current_line, tokens, spans,
                   unterminated_comment_error, not_scan>>

ScanStep ==
    \/ ScanEnter \/ ScanReturn
    \/ Newline \/ Whitespace \/ LineComment \/ BlockComment \/ Directive
    \/ TripleOperator \/ DoubleOperator \/ SingleOperator \/ SpecialCharacter
    \/ Word \/ Number \/ Unexpected

-----------------------------------------------------------------------------
(* Decimal numbers as text *)

DigitChars == <<"0", "1", "2", "3", "4", "5", "6", "7", "8", "9">>

DigitVal(c) == CHOOSE d \in 0..9 : DigitChars[d + 1] = c

\* what operator<< writes for an int
RECURSIVE Decimal(_)
Decimal(n) ==
    IF n < 0 THEN <<"-">> \o Decimal(0 - n)
    ELSE IF n < 10 THEN <<DigitChars[n + 1]>>
    ELSE Append(Decimal(n \div 10), DigitChars[(n % 10) + 1])

-----------------------------------------------------------------------------
(* Writing tokens.txt (scanner main) *)

\* the characters of each token class as the scanner spells it
ClassChars(c) ==
    CASE c = "KEYWORD" -> <<"K","E","Y","W","O","R","D">>
      [] c = "IDENTIFIER" -> <<"I","D","E","N","T","I","F","I","E","R">>
      [] c = "OPERATOR" -> <<"O","P","E","R","A","T","O","R">>
      [] c = "SPECIAL CHARACTER" ->
            <<"S","P","E","C","I","A","L"," ","C","H","A","R","A","C","T","E","R">>
      [] c = "NUMERIC CONSTANT" ->
            <<"N","U","M","E","R","I","C"," ","C","O","N","S","T","A","N","T">>
      [] c = "PREPROCESSOR DIRECTIVE" ->
            <<"P","R","E","P","R","O","C","E","S","S","O","R"," ",
              "D","I","R","E","C","T","I","V","E">>
      [] c = "Single-Line Comment" ->
            <<"S","i","n","g","l","e","-","L","i","n","e"," ",
              "C","o","m","m","e","n","t">>
      [] c = "Multi-Line Comment" ->
            <<"M","u","l","t","i","-","L","i","n","e"," ",
              "C","o","m","m","e","n","t">>
      [] c = "CHAR_LITERAL" -> <<"C","H","A","R","_","L","I","T","E","R","A","L">>

\* output_file << "<" << class << ", " << value << ", " << line << ">" << endl
TokenLine(t) ==
    <<"<">> \o ClassChars(t.token_class) \o <<",", " ">> \o t.token_value
            \o <<",", " ">> \o Decimal(t.line_number) \o <<">">> \o <<"\n">>

RECURSIVE WriteTokens(_)
WriteTokens(toks) ==
    IF toks = <<>> THEN <<>> ELSE TokenLine(Head(toks)) \o WriteTokens(Tail(toks))

NoFile == [exists |-> FALSE, content |-> <<>>]

\* a tokens.txt left by an earlier run
StaleFile ==
    [exists |-> TRUE,
     content |-> <<"<","O","P","E","R","A","T","O","R",","," ","+",","," ","7",">","\n">>]

scan_state == <<current_char_index, current_line, tokens, spans, flags>>

\* main: the source is empty
MainEmptySource ==
    /\ s_pc = "main"
    /\ source_code = <<>>
    /\ s_exit' = 1 /\ s_pc' = "exit"
    /\ UNCHANGED <<source_code, scan_state, tokens_txt, loaded, parse_vars>>

\* main: the block comment never ended
MainUnterminated ==
    /\ s_pc = "main"
    /\ source_code # <<>>
    /\ unterminated_comment_error
    /\ s_exit' = 1 /\ s_pc' = "exit"
    /\ UNCHANGED <<source_code, scan_state, tokens_txt, loaded, parse_vars>>

\* a faulty variant: the unexpected-character exit comes after the file is written
MainUnexpected_Writes ==
    /\ s_pc = "main"
    /\ source_code # <<>>
    /\ ~unterminated_comment_error
    /\ unexpected_char_error
    /\ tokens_txt' = [exists |-> TRUE, content |-> WriteTokens(tokens)]
    /\ s_exit' = 1 /\ s_pc' = "exit"
    /\ UNCHANGED <<source_code, scan_state, loaded, parse_vars>>

\* main: an unexpected character was met
MainUnexpected ==
    /\ s_pc = "main"
    /\ source_code # <<>>
    /\ ~unterminated_comment_error
    /\ unexpected_char_error
    /\ s_exit' = 1 /\ s_pc' = "exit"
    /\ UNCHANGED <<source_code, scan_state, tokens_txt, loaded, parse_vars>>

\* main: all went fine, tokens.txt is written
MainWrite ==
    /\ s_pc = "main"
    /\ source_code # <<>>
    /\ ~unterminated_comment_error
    /\ ~unexpected_char_error
    /\ tokens_txt' = [exists |-> TRUE, content |-> WriteTokens(tokens)]
    /\ s_exit' = 0 /\ s_pc' = "exit"
    /\ UNCHANGED <<source_code, scan_state, loaded, parse_vars>>

-----------------------------------------------------------------------------
(* Reading tokens.txt back (load_tokens_from_file) *)

\* string::npos, standing for every size_t too large to be an index
NPOS == 2147483647

\* a size_t difference: a negative result wraps to a huge value
WrapSizeT(x) == IF x < 0 THEN NPOS + x + 1 ELSE x

\* line.find(','): 0-based index of the first comma, or npos
find_comma(line) ==
    IF \E k \in 1..Len(line) : line[k] = ","
    THEN (CHOOSE k \in 1..Len(line) :
              line[k] = "," /\ \A j \in 1..(k - 1) : line[j] # ",") - 1
    ELSE NPOS

\* line.rfind(','): 0-based index of the last comma, or npos
rfind_comma(line) ==
    IF \E k \in 1..Len(line) : line[k] = ","
    THEN (CHOOSE k \in 1..Len(line) :
              line[k] = "," /\ \A j \in (k + 1)..Len(line) : line[j] # ",") - 1
    ELSE NPOS

\* s.substr(pos, n) for pos <= s.length(): n is cut at the end of s
str_substr(s, pos, n) ==
    SubSeq(s, pos + 1, IF n > Len(s) - pos THEN Len(s) ELSE pos + n)

\* std::getline over the whole file: the lines without their '\n'
RECURSIVE GetLines(_)
GetLines(text) ==
    IF text = <<>> THEN <<>>
    ELSE IF \E k \in 1..Len(text) : text[k] = "\n"
         THEN LET k == CHOOSE k \in 1..Len(text) :
                           text[k] = "\n" /\ \A j \in 1..(k - 1) : text[j] # "\n"
              IN <<SubSeq(text, 1, k - 1)>> \o GetLines(SubSeq(text, k + 1, Len(text)))
         ELSE <<text>>

INT_MAX == 2147483647

\* the digits of std::stoi: acc is the value so far, -1 once it overflows int
RECURSIVE StoiDigits(_, _, _)
StoiDigits(s, k, acc) ==
    IF k <= Len(s) /\ isdigit(s[k])
    THEN IF acc = -1 \/ acc > (INT_MAX - DigitVal(s[k])) \div 10
         THEN StoiDigits(s, k + 1, -1)
         ELSE StoiDigits(s, k + 1, acc * 10 + DigitVal(s[k]))
    ELSE acc

RECURSIVE SkipSpaces(_, _)
SkipSpaces(s, k) ==
    IF k <= Len(s) /\ isspace(s[k]) THEN SkipSpaces(s, k + 1) ELSE k

\* std::stoi(s): leading whitespace, an optional sign, then digits; whatever
\* follows the digits is ignored. ok is FALSE where stoi throws.
stoi(s) ==
    LET k0 == SkipSpaces(s, 1)
        signed == k0 <= Len(s) /\ s[k0] \in {"+", "-"}
        k1 == IF signed THEN k0 + 1 ELSE k0
        has_digit == k1 <= Len(s) /\ isdigit(s[k1])
        v == StoiDigits(s, k1, 0)
    IN IF ~has_digit \/ v = -1
       THEN [ok |-> FALSE, value |-> 0]
       ELSE [ok |-> TRUE, value |-> IF signed /\ s[k0] = "-" THEN 0 - v ELSE v]

\* a faulty variant: the value field is ended at the second comma, not the last one
LoadLine_SecondComma(line) ==
    IF Len(line) < 5 THEN [kind |-> "short"]
    ELSE
    LET first_comma == find_comma(line)
        rest == SubSeq(line, first_comma + 2, Len(line))
        last_comma == IF first_comma = NPOS \/ find_comma(rest) = NPOS
                      THEN first_comma
                      ELSE first_comma + 1 + find_comma(rest)
    IN IF first_comma = NPOS \/ last_comma = NPOS \/ first_comma = last_comma
       THEN [kind |-> "malformed"]
       ELSE IF last_comma + 2 > Len(line)
       THEN [kind |-> "out_of_range"]
       ELSE
       LET token_class == str_substr(line, 1, WrapSizeT(first_comma - 1))
           token_value == str_substr(line, first_comma + 2,
                                     WrapSizeT(last_comma - (first_comma + 2)))
           line_str == str_substr(line, last_comma + 2,
                                  WrapSizeT(Len(line) - (last_comma + 2) - 1))
           n == stoi(line_str)
       IN IF n.ok
          THEN [kind |-> "token",
                token |-> [token_class |-> token_class,
                           token_value |-> token_value,
                           line_number |-> n.value]]
          ELSE [kind |-> "bad_number"]

\* the body of the getline loop for one line: what becomes of the line
LoadLine(line) ==
    IF Len(line) < 5 THEN [kind |-> "short"]
    ELSE
    LET first_comma == find_comma(line)
        last_comma == rfind_comma(line)
    IN IF first_comma = NPOS \/ last_comma = NPOS \/ first_comma = last_comma
       THEN [kind |-> "malformed"]
       ELSE IF last_comma + 2 > Len(line)
       THEN [kind |-> "out_of_range"]    \* substr throws, nothing catches it
       ELSE
       LET token_class == str_substr(line, 1, WrapSizeT(first_comma - 1))
           token_value == str_substr(line, first_comma + 2,
                                     WrapSizeT(last_comma - (first_comma + 2)))
           line_str == str_substr(line, last_comma + 2,
                                  WrapSizeT(Len(line) - (last_comma + 2) - 1))
           n == stoi(line_str)
       IN IF n.ok
          THEN [kind |-> "token",
                token |-> [token_class |-> token_class,
                           token_value |-> token_value,
                           line_number |-> n.value]]
          ELSE [kind |-> "bad_number"]

\* the getline loop; st = [tokens, warnings, crashed]
RECURSIVE LoadLines(_, _)
LoadLines(lines, st) ==
    IF lines = <<>> THEN st
    ELSE LET r == LoadLine(Head(lines)) IN
         CASE r.kind = "token" ->
                LoadLines(Tail(lines), [st EXCEPT !.tokens = Append(@, r.token)])
           [] r.kind = "short" -> LoadLines(Tail(lines), st)
           [] r.kind \in {"malformed", "bad_number"} ->
                LoadLines(Tail(lines), [st EXCEPT !.warnings = @ + 1])
           [] r.kind = "out_of_range" -> [st EXCEPT !.crashed = TRUE]

load_tokens_from_file(file) ==
    IF ~file.exists
    THEN [opened |-> FALSE, tokens |-> <<>>, warnings |-> 0, crashed |-> FALSE]
    ELSE LoadLines(GetLines(file.content),
                   [opened |-> TRUE, tokens |-> <<>>, warnings |-> 0, crashed |-> FALSE])

NotLoaded == [opened |-> FALSE, tokens |-> <<>>, warnings |-> 0, crashed |-> FALSE]

\* the parser program is started after the scanner has exited
LoadTokens ==
    /\ s_pc = "exit"
    /\ s_pc' = "loaded"
    /\ loaded' = load_tokens_from_file(tokens_txt)
    /\ UNCHANGED <<source_code, scan_state, s_exit, tokens_txt, parse_vars>>

-----------------------------------------------------------------------------
(* The parser: class Parser.  Every operator takes the token vector T     *)
(* (m_tokens) and the parser's state s = [pos, failed, diags]: pos is      *)
(* m_current_pos, failed says that the runtime_error has been thrown and   *)
(* is unwinding to Parser::parse, diags is what was written to cerr.       *)
(* Once failed, every operation leaves the state as it is.  s.matched is   *)
(* a history of the run: the positions of the tokens that match has        *)
(* returned, in the order it returned them.                                *)

PToken(class, value, line) ==
    [token_value |-> value, token_class |-> class, line_number |-> line]

CommentClasses == {"Single-Line Comment", "Multi-Line Comment"}

\* static Token eof_token = {"", "EOF", -1}
eof_token == PToken("EOF", "", -1)

ParseNode(type, value, line, children) ==
    [type |-> type, value |-> value, line |-> line, children |-> children]

\* what a function hands back while an exception unwinds through it
NoNode == ParseNode("nullptr", "", 0, <<>>)

is_at_end(T, s) == s.pos >= Len(T)

\* a faulty variant: skip_comments steps over one comment at most
SkipCommentsFrom_OneComment(T, p) ==
    IF p < Len(T) /\ T[p + 1].token_class \in CommentClasses
    THEN p + 1
    ELSE p

RECURSIVE SkipCommentsFrom(_, _)
SkipCommentsFrom(T, p) ==
    IF p < Len(T) /\ T[p + 1].token_class \in CommentClasses
    THEN SkipCommentsFrom(T, p + 1)
    ELSE p

skip_comments(T, s) ==
    IF s.failed THEN s ELSE [s EXCEPT !.pos = SkipCommentsFrom(T, s.pos)]

\* peek() moves the cursor past comments: Peek is the state it leaves,
\* Cur the token it returns from that state
Peek(T, s) == skip_comments(T, s)
Cur(T, s) == IF is_at_end(T, s) THEN eof_token ELSE T[s.pos + 1]

\* a faulty variant: the loop of lookahead steps over one token and no comment
RECURSIVE LookaheadPos_NoSkip(_, _, _)
LookaheadPos_NoSkip(T, lookahead_pos, offset) ==
    IF offset > 0 /\ lookahead_pos < Len(T)
    THEN LookaheadPos_NoSkip(T, lookahead_pos + 1, offset - 1)
    ELSE lookahead_pos

\* the loop of lookahead: offset steps, each past one token and the comments after it
RECURSIVE LookaheadPos(_, _, _)
LookaheadPos(T, lookahead_pos, offset) ==
    IF offset > 0 /\ lookahead_pos < Len(T)
    THEN LookaheadPos(T, SkipCommentsFrom(T, lookahead_pos + 1), offset - 1)
    ELSE lookahead_pos

\* lookahead(offset), called in a state Peek has left
lookahead(T, s, offset) ==
    LET lookahead_pos == LookaheadPos(T, s.pos, offset)
    IN IF lookahead_pos >= Len(T) THEN eof_token ELSE T[lookahead_pos + 1]

advance(T, s) == IF ~is_at_end(T, s) THEN [s EXCEPT !.pos = s.pos + 1] ELSE s

\* a faulty variant: a report_error that writes nothing when the cursor is at the end of the vector
report_error_SilentAtEnd(T, s, message, by) ==
    IF s.failed THEN s
    ELSE IF is_at_end(T, s)
    THEN [s EXCEPT !.failed = TRUE]
    ELSE LET s1 == Peek(T, s)
         IN [s1 EXCEPT !.failed = TRUE,
                       !.diags = Append(@, [where |-> "Line",
                                            line |-> Cur(T, s1).line_number,
                                            message |-> message, by |-> by])]

\* a faulty variant: a report_error that prints the line of peek() without testing is_at_end
report_error_NoEndTest(T, s, message, by) ==
    IF s.failed THEN s
    ELSE LET s1 == Peek(T, s)
         IN [s1 EXCEPT !.failed = TRUE,
                       !.diags = Append(@, [where |-> "Line",
                                            line |-> Cur(T, s1).line_number,
                                            message |-> message, by |-> by])]

\* report_error(message) followed by throw runtime_error, raised by function `by`
report_error(T, s, message, by) ==
    IF s.failed THEN s
    ELSE IF is_at_end(T, s)
    THEN [s EXCEPT !.failed = TRUE,
                   !.diags = Append(@, [where |-> "End of File", line |-> 0,
                                        message |-> message, by |-> by])]
    ELSE LET s1 == Peek(T, s)
         IN [s1 EXCEPT !.failed = TRUE,
                       !.diags = Append(@, [where |-> "Line",
                                            line |-> Cur(T, s1).line_number,
                                            message |-> message, by |-> by])]

\* match(expected_class, expected_value): [s, tok]
match(T, s, expected_class, expected_value) ==
    IF s.failed THEN [s |-> s, tok |-> eof_token]
    ELSE
    LET s1 == Peek(T, s)
        token == Cur(T, s1)
    IN IF /\ token.token_class = expected_class
          /\ (expected_value = "" \/ token.token_value = expected_value)
       THEN [s |-> [advance(T, s1) EXCEPT !.matched = Append(@, s1.pos)],
             tok |-> token]
       ELSE [s |-> report_error(T, s1, <<"Expected", expected_class, expected_value,
                                         "but got", token.token_class, token.token_value>>,
                                "match"),
             tok |-> eof_token]

Ret(s, node) == [s |-> s, node |-> IF s.failed THEN NoNode ELSE node]

\* the grammar functions call one another
RECURSIVE Call(_, _, _)

\* ---- expressions ----

\* the closing parenthesis after the expression expr_node
primary_close(T, expr_node) ==
    IF expr_node.s.failed THEN expr_node
    ELSE Ret(match(T, expr_node.s, "SPECIAL CHARACTER", ")").s, expr_node.node)

\* a constant or an identifier: the matched token becomes a node of type type
primary_value(value, type, line) ==
    Ret(value.s, ParseNode(type, value.tok.token_value, line, <<>>))

parse_primary(T, s) ==
    IF s.failed THEN Ret(s, NoNode)
    ELSE IF Cur(T, Peek(T, s)).token_class = "NUMERIC CONSTANT"
    THEN primary_value(match(T, Peek(T, s), "NUMERIC CONSTANT", ""),
                       "Constant", Cur(T, Peek(T, s)).line_number)
    ELSE IF Cur(T, Peek(T, s)).token_class = "IDENTIFIER"
    THEN primary_value(match(T, Peek(T, s), "IDENTIFIER", ""),
                       "Identifier", Cur(T, Peek(T, s)).line_number)
    ELSE IF Cur(T, Peek(T, s)).token_value = "("
    THEN primary_close(T, Call("parse_expression", T,
             match(T, Peek(T, s), "SPECIAL CHARACTER", "(").s))
    ELSE Ret(report_error(T, Peek(T, s),
                 <<"Expected a value, variable, or expression in parentheses.">>,
                 "parse_primary"),
             NoNode)

\* the node of a binary operator op between left_node and right_node
binary_node(left_node, op, right_node) ==
    Ret(right_node.s,
        ParseNode("BinaryExpression", op.tok.token_value, op.tok.line_number,
                  <<left_node.node, right_node.node>>))

\* the while loop of parse_multiplicative, left_node the operand so far
RECURSIVE multiplicative_loop(_, _)
multiplicative_loop(T, left_node) ==
    IF left_node.s.failed THEN left_node
    ELSE IF Cur(T, Peek(T, left_node.s)).token_value \in {"*", "/"}
    THEN LET op == match(T, Peek(T, left_node.s), "OPERATOR", "")
         IN multiplicative_loop(T, binary_node(left_node, op, Call("parse_primary", T, op.s)))
    ELSE Ret(Peek(T, left_node.s), left_node.node)

parse_multiplicative(T, s) == multiplicative_loop(T, Call("parse_primary", T, s))

\* the while loop of parse_additive
RECURSIVE additive_loop(_, _)
additive_loop(T, left_node) ==
    IF left_node.s.failed THEN left_node
    ELSE IF Cur(T, Peek(T, left_node.s)).token_value \in {"+", "-"}
    THEN LET op == match(T, Peek(T, left_node.s), "OPERATOR", "")
         IN additive_loop(T, binary_node(left_node, op, Call("parse_multiplicative", T, op.s)))
    ELSE Ret(Peek(T, left_node.s), left_node.node)

\* a faulty variant: the operators of the additive level nest to the right
parse_additive_RightAssoc(T, s) ==
    LET left_node == Call("parse_multiplicative", T, s)
    IN IF left_node.s.failed THEN left_node
       ELSE IF Cur(T, Peek(T, left_node.s)).token_value \in {"+", "-"}
       THEN LET op == match(T, Peek(T, left_node.s), "OPERATOR", "")
            IN binary_node(left_node, op, Call("parse_additive", T, op.s))
       ELSE Ret(Peek(T, left_node.s), left_node.node)

parse_additive(T, s) == additive_loop(T, Call("parse_multiplicative", T, s))

\* the while loop of parse_relational
RECURSIVE relational_loop(_, _)
relational_loop(T, left_node) ==
    IF left_node.s.failed THEN left_node
    ELSE IF Cur(T, Peek(T, left_node.s)).token_value \in {"<", ">", "<=", ">="}
    THEN LET op == match(T, Peek(T, left_node.s), "OPERATOR", "")
         IN relational_loop(T, binary_node(left_node, op, Call("parse_additive", T, op.s)))
    ELSE Ret(Peek(T, left_node.s), left_node.node)

parse_relational(T, s) == relational_loop(T, Call("parse_additive", T, s))

\* the while loop of parse_equality
RECURSIVE equality_loop(_, _)
equality_loop(T, left_node) ==
    IF left_node.s.failed THEN left_node
    ELSE IF Cur(T, Peek(T, left_node.s)).token_value \in {"==", "!="}
    THEN LET op == match(T, Peek(T, left_node.s), "OPERATOR", "")
         IN equality_loop(T, binary_node(left_node, op, Call("parse_relational", T, op.s)))
    ELSE Ret(Peek(T, left_node.s), left_node.node)

parse_equality(T, s) == equality_loop(T, Call("parse_relational", T, s))

\* the right-hand side of an assignment whose left-hand side is left_node
assignment_node(start_line, left_node, op, right_node) ==
    Ret(right_node.s,
        ParseNode("AssignmentExpression", op.tok.token_value, start_line,
                  <<left_node.node, right_node.node>>))

\* parse_assignment after its left-hand side
assignment_rest(T, start_line, left_node) ==
    IF left_node.s.failed THEN left_node
    ELSE IF Cur(T, Peek(T, left_node.s)).token_value = "="
    THEN LET op == match(T, Peek(T, left_node.s), "OPERATOR", "=")
         IN assignment_node(start_line, left_node, op, Call("parse_assignment", T, op.s))
    ELSE Ret(Peek(T, left_node.s), left_node.node)

parse_assignment(T, s) ==
    IF s.failed THEN Ret(s, NoNode)
    ELSE assignment_rest(T, Cur(T, Peek(T, s)).line_number,
                         Call("parse_equality", T, Peek(T, s)))

parse_expression(T, s) == Call("parse_assignment", T, s)

\* ---- declarations ----

\* the do-while loop of parse_variable_declaration: [s, children]
RECURSIVE declarator_loop(_, _, _)

\* the comma before every declarator but the first, met in state s1
declarator_comma(T, s1) ==
    IF Cur(T, s1).token_value = ","
    THEN match(T, s1, "SPECIAL CHARACTER", ",").s
    ELSE s1

\* a faulty variant: the expression is pushed under the declarator without an Initializer node
declarator_initialized_NoInitializer(T, var_token, s3, init_expr) ==
    IF init_expr.s.failed THEN init_expr
    ELSE [s |-> init_expr.s,
          node |-> ParseNode("Declarator", var_token.tok.token_value,
                             var_token.tok.line_number, <<init_expr.node>>)]

\* the initializer after var_token and "=", its expression starting in state s3
declarator_initialized(T, var_token, s3, init_expr) ==
    IF init_expr.s.failed THEN init_expr
    ELSE [s |-> init_expr.s,
          node |-> ParseNode("Declarator", var_token.tok.token_value,
                             var_token.tok.line_number,
                             <<ParseNode("Initializer", "=", Cur(T, s3).line_number,
                                         <<init_expr.node>>)>>)]

\* the declarator named by var_token, s2 the state peek leaves after the name
declarator(T, var_token, s2) ==
    IF ~s2.failed /\ Cur(T, s2).token_value = "="
    THEN declarator_initialized(T, var_token,
             Peek(T, match(T, s2, "OPERATOR", "=").s),
             Call("parse_expression", T, Peek(T, match(T, s2, "OPERATOR", "=").s)))
    ELSE [s |-> s2,
          node |-> ParseNode("Declarator", var_token.tok.token_value,
                             var_token.tok.line_number, <<>>)]

\* the declarator d is pushed, then the test of the do-while
declarator_push(T, children, d) ==
    IF d.s.failed THEN [s |-> d.s, children |-> children]
    ELSE IF Cur(T, Peek(T, d.s)).token_value = ","
    THEN declarator_loop(T, Peek(T, d.s), Append(children, d.node))
    ELSE [s |-> Peek(T, d.s), children |-> Append(children, d.node)]

declarator_named(T, children, var_token) ==
    declarator_push(T, children, declarator(T, var_token, Peek(T, var_token.s)))

declarator_loop(T, s, children) ==
    IF s.failed THEN [s |-> s, children |-> children]
    ELSE declarator_named(T, children,
             match(T, declarator_comma(T, Peek(T, s)), "IDENTIFIER", ""))

\* the semicolon after the declarators decls
variable_declaration_end(T, start_line, decls) ==
    IF decls.s.failed THEN Ret(decls.s, NoNode)
    ELSE Ret(match(T, decls.s, "SPECIAL CHARACTER", ";").s,
             ParseNode("VariableDeclarationStatement", "", start_line, decls.children))

parse_variable_declaration(T, s) ==
    IF s.failed THEN Ret(s, NoNode)
    ELSE
    LET s1 == Peek(T, s)
        start_line == Cur(T, s1).line_number
        is_const == Cur(T, s1).token_value = "const"
        t == match(T, s1, "KEYWORD", "const")
        s2 == IF is_const THEN t.s ELSE s1
        type_token == match(T, s2, "KEYWORD", "")
        head == (IF is_const
                 THEN <<ParseNode("Keyword", t.tok.token_value, t.tok.line_number, <<>>)>>
                 ELSE <<>>)
                \o <<ParseNode("TypeSpecifier", type_token.tok.token_value,
                               type_token.tok.line_number, <<>>)>>
    IN variable_declaration_end(T, start_line,
                                declarator_loop(T, type_token.s, head))

parse_function_or_prototype(T, s) ==
    IF s.failed THEN Ret(s, NoNode)
    ELSE
    LET s1 == Peek(T, s)
        start_line == Cur(T, s1).line_number
        type_token == match(T, s1, "KEYWORD", "")
        name_token == match(T, type_token.s, "IDENTIFIER", "")
        m_open == match(T, name_token.s, "SPECIAL CHARACTER", "(")
        m_close == match(T, m_open.s, "SPECIAL CHARACTER", ")")
        s2 == Peek(T, m_close.s)
        type_node == ParseNode("TypeSpecifier", type_token.tok.token_value,
                               type_token.tok.line_number, <<>>)
    IN IF s2.failed THEN Ret(s2, NoNode)
       ELSE IF Cur(T, s2).token_value = "{"
       THEN LET body == Call("parse_block_statement", T, s2)
            IN Ret(body.s, ParseNode("FunctionDefinition", name_token.tok.token_value,
                                     start_line, <<type_node, body.node>>))
       ELSE IF Cur(T, s2).token_value = ";"
       THEN LET m_semi == match(T, s2, "SPECIAL CHARACTER", ";")
            IN Ret(m_semi.s, ParseNode("FunctionPrototype", name_token.tok.token_value,
                                       start_line, <<type_node>>))
       ELSE Ret(report_error(T, s2,
                    <<"Expected '{' for function body or ';' for prototype after function signature.">>,
                    "parse_function_or_prototype"),
                NoNode)

\* a faulty variant: a directive is read by peek and left in the vector
parse_top_level_declaration_DirectiveKept(T, s) ==
    IF s.failed THEN Ret(s, NoNode)
    ELSE
    LET s1 == Peek(T, s)
    IN IF Cur(T, s1).token_class = "PREPROCESSOR DIRECTIVE"
       THEN Ret(s1, ParseNode("PreprocessorDirective", Cur(T, s1).token_value,
                              Cur(T, s1).line_number, <<>>))
       ELSE IF /\ Cur(T, s1).token_class = "KEYWORD"
               /\ Cur(T, s1).token_value \in {"int", "float", "char", "void", "const"}
       THEN LET future_token == lookahead(T, s1, 2)
            IN IF future_token.token_value = "("
               THEN Call("parse_function_or_prototype", T, s1)
               ELSE Call("parse_variable_declaration", T, s1)
       ELSE Ret(report_error(T, s1,
                    <<"Unrecognized top-level statement. Expected a global variable or function.">>,
                    "parse_top_level_declaration"),
                NoNode)

parse_top_level_declaration(T, s) ==
    IF s.failed THEN Ret(s, NoNode)
    ELSE
    LET s1 == Peek(T, s)
    IN IF Cur(T, s1).token_class = "PREPROCESSOR DIRECTIVE"
       THEN LET directive == match(T, s1, "PREPROCESSOR DIRECTIVE", "")
            IN Ret(directive.s, ParseNode("PreprocessorDirective",
                                          directive.tok.token_value,
                                          directive.tok.line_number, <<>>))
       ELSE IF /\ Cur(T, s1).token_class = "KEYWORD"
               /\ Cur(T, s1).token_value \in {"int", "float", "char", "void", "const"}
       THEN LET future_token == lookahead(T, s1, 2)
            IN IF future_token.token_value = "("
               THEN Call("parse_function_or_prototype", T, s1)
               ELSE Call("parse_variable_declaration", T, s1)
       ELSE Ret(report_error(T, s1,
                    <<"Unrecognized top-level statement. Expected a global variable or function.">>,
                    "parse_top_level_declaration"),
                NoNode)

\* ---- statements ----

\* an if statement with its else branch
if_else(start_line, cond, then_stmt, else_stmt) ==
    Ret(else_stmt.s, ParseNode("IfStatement", "if", start_line,
                               <<cond.node, then_stmt.node, else_stmt.node>>))

\* parse_if_statement after the statement of the then branch
if_then(T, start_line, cond, then_stmt) ==
    IF then_stmt.s.failed THEN then_stmt
    ELSE IF Cur(T, Peek(T, then_stmt.s)).token_value = "else"
    THEN if_else(start_line, cond, then_stmt,
                 Call("parse_statement", T, match(T, Peek(T, then_stmt.s), "KEYWORD", "else").s))
    ELSE Ret(Peek(T, then_stmt.s),
             ParseNode("IfStatement", "if", start_line, <<cond.node, then_stmt.node>>))

\* parse_if_statement after the condition
if_condition(T, start_line, cond) ==
    IF cond.s.failed THEN cond
    ELSE if_then(T, start_line, cond,
                 Call("parse_statement", T, match(T, cond.s, "SPECIAL CHARACTER", ")").s))

parse_if_statement(T, s) ==
    IF s.failed THEN Ret(s, NoNode)
    ELSE if_condition(T, Cur(T, Peek(T, s)).line_number,
             Call("parse_expression", T,
                 match(T, match(T, Peek(T, s), "KEYWORD", "if").s,
                       "SPECIAL CHARACTER", "(").s))

\* the semicolon after the returned expression
return_value(T, start_line, value) ==
    IF value.s.failed THEN value
    ELSE Ret(match(T, value.s, "SPECIAL CHARACTER", ";").s,
             ParseNode("ReturnStatement", "return", start_line, <<value.node>>))

\* parse_return_statement after the keyword, in the state s2 peek leaves
return_rest(T, start_line, s2) ==
    IF s2.failed THEN Ret(s2, NoNode)
    ELSE IF Cur(T, s2).token_value # ";"
    THEN return_value(T, start_line, Call("parse_expression", T, s2))
    ELSE Ret(match(T, s2, "SPECIAL CHARACTER", ";").s,
             ParseNode("ReturnStatement", "return", start_line, <<>>))

parse_return_statement(T, s) ==
    IF s.failed THEN Ret(s, NoNode)
    ELSE return_rest(T, Cur(T, Peek(T, s)).line_number,
                     Peek(T, match(T, Peek(T, s), "KEYWORD", "return").s))

\* the semicolon after the expression expr
expression_statement_end(T, start_line, expr) ==
    IF expr.s.failed THEN expr
    ELSE Ret(match(T, expr.s, "SPECIAL CHARACTER", ";").s,
             ParseNode("ExpressionStatement", "", start_line, <<expr.node>>))

parse_expression_statement(T, s) ==
    IF s.failed THEN Ret(s, NoNode)
    ELSE expression_statement_end(T, Cur(T, Peek(T, s)).line_number,
                                  Call("parse_expression", T, Peek(T, s)))

\* 1. the initializer of a for statement, in the state s2 peek has left
for_initializer(T, s2, start_line) ==
    IF s2.failed THEN Ret(s2, NoNode)
    ELSE IF Cur(T, s2).token_value = ";"
    THEN Ret(match(T, s2, "SPECIAL CHARACTER", ";").s,
             ParseNode("Empty", "initializer", start_line, <<>>))
    ELSE IF Cur(T, s2).token_value \in {"int", "char", "float"}
    THEN Call("parse_variable_declaration", T, s2)
    ELSE Call("parse_expression_statement", T, s2)

\* a faulty variant: the condition is wrapped in a node of its own
for_condition_end_Wrapped(T, e) ==
    IF e.s.failed THEN e
    ELSE Ret(match(T, e.s, "SPECIAL CHARACTER", ";").s,
             ParseNode("Condition", "", e.node.line, <<e.node>>))

\* the semicolon after the condition e
for_condition_end(T, e) ==
    IF e.s.failed THEN e
    ELSE Ret(match(T, e.s, "SPECIAL CHARACTER", ";").s, e.node)

\* 2. the condition, in the state s3 peek has left
for_condition(T, s3, start_line) ==
    IF s3.failed THEN Ret(s3, NoNode)
    ELSE IF Cur(T, s3).token_value = ";"
    THEN Ret(match(T, s3, "SPECIAL CHARACTER", ";").s,
             ParseNode("Empty", "condition", start_line, <<>>))
    ELSE for_condition_end(T, Call("parse_expression", T, s3))

\* 3. the increment, in the state s4 peek has left
for_increment(T, s4, start_line) ==
    IF s4.failed THEN Ret(s4, NoNode)
    ELSE IF Cur(T, s4).token_value = ")"
    THEN Ret(s4, ParseNode("Empty", "increment", start_line, <<>>))
    ELSE Call("parse_expression", T, s4)

\* the node built from the four children
for_node(start_line, init, cond, incr, body) ==
    Ret(body.s, ParseNode("ForStatement", "for", start_line,
                          <<init.node, cond.node, incr.node, body.node>>))

\* 4. the body, after the closing parenthesis
for_body(T, start_line, init, cond, incr) ==
    IF incr.s.failed THEN incr
    ELSE for_node(start_line, init, cond, incr,
                  Call("parse_statement", T, match(T, incr.s, "SPECIAL CHARACTER", ")").s))

for_after_condition(T, start_line, init, cond) ==
    IF cond.s.failed THEN cond
    ELSE for_body(T, start_line, init, cond,
                  for_increment(T, Peek(T, cond.s), start_line))

for_after_initializer(T, start_line, init) ==
    IF init.s.failed THEN init
    ELSE for_after_condition(T, start_line, init,
                             for_condition(T, Peek(T, init.s), start_line))

for_header(T, s1, start_line) ==
    for_after_initializer(T, start_line,
        for_initializer(T,
            Peek(T, match(T, match(T, s1, "KEYWORD", "for").s,
                          "SPECIAL CHARACTER", "(").s),
            start_line))

parse_for_statement(T, s) ==
    IF s.failed THEN Ret(s, NoNode)
    ELSE for_header(T, Peek(T, s), Cur(T, Peek(T, s)).line_number)

parse_statement(T, s) ==
    IF s.failed THEN Ret(s, NoNode)
    ELSE
    LET s1 == Peek(T, s)
        token_value == Cur(T, s1).token_value
    IN IF token_value = "if" THEN Call("parse_if_statement", T, s1)
       ELSE IF token_value = "for" THEN Call("parse_for_statement", T, s1)
       ELSE IF token_value = "return" THEN Call("parse_return_statement", T, s1)
       ELSE IF token_value = "{" THEN Call("parse_block_statement", T, s1)
       ELSE IF token_value = ";"
       THEN LET line == Cur(T, s1).line_number
                m_semi == match(T, s1, "SPECIAL CHARACTER", ";")
            IN Ret(m_semi.s, ParseNode("EmptyStatement", ";", line, <<>>))
       ELSE IF token_value \in {"const", "int", "float", "char"}
       THEN Call("parse_variable_declaration", T, s1)
       ELSE Call("parse_expression_statement", T, s1)

\* the while loop of parse_block_statement: [s, children]
RECURSIVE block_loop(_, _, _)

\* the statement stmt is pushed, then the loop goes on
block_push(T, children, stmt) ==
    IF stmt.s.failed THEN [s |-> stmt.s, children |-> children]
    ELSE block_loop(T, stmt.s, Append(children, stmt.node))

block_loop(T, s, children) ==
    IF s.failed THEN [s |-> s, children |-> children]
    ELSE IF Cur(T, Peek(T, s)).token_value # "}"
    THEN block_push(T, children, Call("parse_statement", T, Peek(T, s)))
    ELSE [s |-> Peek(T, s), children |-> children]

\* the closing brace after the statements stmts
block_end(T, start_line, stmts) ==
    IF stmts.s.failed THEN Ret(stmts.s, NoNode)
    ELSE Ret(match(T, stmts.s, "SPECIAL CHARACTER", "}").s,
             ParseNode("BlockStatement", "{}", start_line, stmts.children))

parse_block_statement(T, s) ==
    IF s.failed THEN Ret(s, NoNode)
    ELSE block_end(T, Cur(T, Peek(T, s)).line_number,
                   block_loop(T, match(T, Peek(T, s), "SPECIAL CHARACTER", "{").s, <<>>))

\* ---- program ----

\* a faulty variant: parse_program returns after its first declaration
program_loop_OneDeclaration(T, s, children) ==
    IF s.failed \/ is_at_end(T, s) THEN [s |-> s, children |-> children]
    ELSE LET decl == Call("parse_top_level_declaration", T, s)
         IN [s |-> decl.s, children |-> Append(children, decl.node)]

\* the while loop of parse_program: [s, children]
RECURSIVE program_loop(_, _, _)
program_loop(T, s, children) ==
    IF s.failed \/ is_at_end(T, s) THEN [s |-> s, children |-> children]
    ELSE LET decl == Call("parse_top_level_declaration", T, s)
         IN program_loop(T, decl.s, Append(children, decl.node))

parse_program(T, s) ==
    LET s1 == IF T = <<>> THEN s ELSE Peek(T, s)
        line == IF T = <<>> THEN 0 ELSE Cur(T, s1).line_number
        decls == program_loop(T, s1, <<>>)
    IN Ret(decls.s, ParseNode("Program", "", line, decls.children))

\* a call of the grammar function named fn
Call(fn, T, s) ==
    CASE fn = "parse_program" -> parse_program(T, s)
      [] fn = "parse_top_level_declaration" -> parse_top_level_declaration(T, s)
      [] fn = "parse_function_or_prototype" -> parse_function_or_prototype(T, s)
      [] fn = "parse_variable_declaration" -> parse_variable_declaration(T, s)
      [] fn = "parse_statement" -> parse_statement(T, s)
      [] fn = "parse_block_statement" -> parse_block_statement(T, s)
      [] fn = "parse_if_statement" -> parse_if_statement(T, s)
      [] fn = "parse_for_statement" -> parse_for_statement(T, s)
      [] fn = "parse_return_statement" -> parse_return_statement(T, s)
      [] fn = "parse_expression_statement" -> parse_expression_statement(T, s)
      [] fn = "parse_expression" -> parse_expression(T, s)
      [] fn = "parse_assignment" -> parse_assignment(T, s)
      [] fn = "parse_equality" -> parse_equality(T, s)
      [] fn = "parse_relational" -> parse_relational(T, s)
      [] fn = "parse_additive" -> parse_additive(T, s)
      [] fn = "parse_multiplicative" -> parse_multiplicative(T, s)
      [] fn = "parse_primary" -> parse_primary(T, s)

\* a Parser as constructed: m_current_pos = 0
NewParser == [pos |-> 0, failed |-> FALSE, diags |-> <<>>, matched |-> <<>>]

\* Parser::parse: the tree, or nullptr when the runtime_error was caught;
\* diags is what the parse wrote to cerr, pos where the cursor was left
parse(T) ==
    LET r == Call("parse_program", T, NewParser)
    IN [tree |-> r.node, diags |-> r.s.diags, pos |-> r.s.pos]

-----------------------------------------------------------------------------
(* The scanner specification: one run of the scanner program on one source *)

NotParsed == [tree |-> NoNode, diags |-> <<>>, pos |-> 0]

ParserIdle ==
    /\ m_tokens = <<>>
    /\ p_pc = "idle"
    /\ p_result = NotParsed
    /\ p_exit = -1

Init ==
    /\ source_code \in Sources
    /\ current_char_index = 0
    /\ current_line = 0
    /\ tokens = <<>>
    /\ spans = <<>>
    /\ unexpected_char_error = FALSE
    /\ unexpected_char = "NUL"
    /\ unterminated_comment_error = FALSE
    /\ s_pc = "scan"
    /\ s_exit = -1
    /\ tokens_txt \in {NoFile, StaleFile}
    /\ loaded = NotLoaded
    /\ ParserIdle

Next ==
    \/ ScanStep
    \/ MainEmptySource \/ MainUnterminated \/ MainUnexpected \/ MainWrite
    \/ LoadTokens

Spec == Init /\ [][Next]_vars

\* scan is a sequential loop: a step of it that can be taken is taken
FairSpec == Init /\ [][Next]_vars /\ WF_vars(ScanStep)

-----------------------------------------------------------------------------
(* The loader specification: load_tokens_from_file run on a token file     *)
(* that need not have been written by the scanner                          *)

\* most lines in an enumerated token file
MaxLines == 2

\* the lines the enumerated token files are made of: well-formed lines,
\* short lines, lines without two commas, lines with a bad frame or a bad
\* line field
FileLines ==
    { <<"<","K",","," ","x",","," ","1",">">>,
      <<"<","K",","," ",",",","," ","1","2",">">>,
      <<"<","a",">">>,
      <<>>,
      <<"<","K"," ","x"," ","1",">">>,
      <<"<","K",","," ","x"," ","1",">">>,
      <<"<","K",","," ","x",","," ","y",">">>,
      <<"<","K",","," ","x",","," ","1","y",">">>,
      <<"a","K",","," ","x",","," ","1","b">>,
      <<"<","K",","," ","x",",">>,
      <<"<","K",","," ","x",","," ",">">>,
      <<"<","K",","," ","x",","," ","1">>,
      <<"<","K",","," ","x",","," ","2","1","4","7","4","8","3","6","4","8",">">> }

\* a file of the given lines, each ended by a newline
RECURSIVE FileOf(_)
FileOf(lines) ==
    IF lines = <<>> THEN <<>> ELSE Head(lines) \o <<"\n">> \o FileOf(Tail(lines))

TokenFiles ==
    { [exists |-> TRUE, content |-> FileOf(lines)] :
        lines \in UNION { [1..n -> FileLines] : n \in 0..MaxLines } } \cup {NoFile}

LoaderInit ==
    /\ source_code = <<>>
    /\ current_char_index = 0
    /\ current_line = 0
    /\ tokens = <<>>
    /\ spans = <<>>
    /\ unexpected_char_error = FALSE
    /\ unexpected_char = "NUL"
    /\ unterminated_comment_error = FALSE
    /\ s_pc = "exit"
    /\ s_exit = -1
    /\ tokens_txt \in TokenFiles
    /\ loaded = NotLoaded
    /\ ParserIdle

LoaderNext == LoadTokens

LoaderSpec == LoaderInit /\ [][LoaderNext]_vars

-----------------------------------------------------------------------------
(* Token streams the parser is run on.  A stream is given by the kinds     *)
(* (class and value) of its tokens; the token at position k is on line k.  *)

\* longest run of tokens enumerated exhaustively in each context
MaxToks == 3

\* most opening parentheses in an enumerated run
MaxNest == 1

Kind(class, value) == [c |-> class, v |-> value]

KW(v) == Kind("KEYWORD", v)
ID(v) == Kind("IDENTIFIER", v)
OP(v) == Kind("OPERATOR", v)
SC(v) == Kind("SPECIAL CHARACTER", v)
NUM(v) == Kind("NUMERIC CONSTANT", v)
PP == Kind("PREPROCESSOR DIRECTIVE", "#include <stdio.h>")
SLC == Kind("Single-Line Comment", "//")
MLC == Kind("Multi-Line Comment", "/* .. */")

\* the kinds the enumerated runs are drawn from, one set per part of the grammar
KindSets ==
    { {PP, KW("int"), KW("const"), ID("x"), SC("("), SC(")"), SC(";"), SLC},
      {KW("int"), ID("x"), OP("="), NUM("1"), SC(","), SC(";"), MLC},
      {KW("if"), KW("else"), KW("return"), SC("("), SC(")"), ID("x"), SC(";"), SLC},
      {KW("for"), SC("("), SC(")"), SC(";"), ID("x"), SC("{"), SC("}"), MLC},
      {ID("x"), NUM("1"), OP("="), OP("+"), OP("*"), OP("<"), OP("=="), SC(";")},
      {ID("x"), OP("++"), KW("while"), SC("."), OP("-"), SC("("), SC(")"), SLC} }

\* the runs of at most MaxToks kinds, with at most MaxNest opening parentheses
Runs ==
    { r \in UNION { UNION { [1..n -> A] : n \in 0..MaxToks } : A \in KindSets } :
        Cardinality({ k \in 1..Len(r) : r[k] = SC("(") }) <= MaxNest }

\* where a run is placed: at top level, in a function body, after "for (",
\* in an initializer
Contexts ==
    { [pre |-> <<>>, post |-> <<>>],
      [pre |-> <<KW("int"), ID("f"), SC("("), SC(")"), SC("{")>>,
       post |-> <<SC("}")>>],
      [pre |-> <<KW("void"), ID("f"), SC("("), SC(")"), SC("{"), KW("for"), SC("(")>>,
       post |-> <<SC(")"), SC(";"), SC("}")>>],
      [pre |-> <<KW("float"), ID("y"), OP("="), ID("x")>>,
       post |-> <<SC(";"), PP>>] }

\* whole programs: the end-to-end scenarios and target_level.c, with and
\* without comments
SeedStreams ==
    { <<KW("int"), ID("main"), SC("("), SC(")"), SC("{"),
        KW("return"), NUM("0"), SC(";"), SC("}")>>,
      <<KW("int"), ID("a"), OP("="), NUM("1"), SC(","),
        ID("b"), OP("="), NUM("2"), SC(";")>>,
      <<KW("int"), ID("f"), SC("("), SC(")"), SC("{"),
        KW("for"), SC("("), KW("int"), ID("i"), OP("="), NUM("0"), SC(";"),
        ID("i"), OP("<"), NUM("10"), SC(";"),
        ID("i"), OP("="), ID("i"), OP("+"), NUM("1"), SC(")"),
        SC("{"), SC("}"), SC("}")>>,
      <<MLC, MLC, PP, KW("int"), ID("main"), SC("("), SC(")"), SC("{"),
        KW("int"), ID("x"), SC(","), ID("y"), SC(";"), SLC,
        KW("if"), SC("("), ID("x"), OP("=="), NUM("42"), SC(")"), SC("{"), MLC,
        ID("x"), OP("="), ID("x"), OP("-"), NUM("3"), SC(";"),
        KW("int"), ID("_xyzw"), SC(";"), SC("}"),
        KW("else"), SC("{"), ID("y"), OP("="), NUM("3.1"), SC(";"), SLC, SC("}"),
        KW("return"), NUM("0"), SC(";"), SC("}")>>,
      <<KW("int"), ID("x"), SC(";"), SLC>>,
      <<KW("int"), ID("a"), OP("="), SC("("), SC("("), NUM("1"), OP("+"), ID("b"),
        SC(")"), OP("*"), NUM("2"), SC(")"), SC(";")>>,
      <<KW("const"), KW("int"), ID("x"), OP("="), NUM("1"), SC(","), ID("y"), SC(";")>>,
      <<KW("int"), MLC, ID("f"), SLC, SC("("), SC(")"), SC(";"), SLC>>,
      <<KW("int"), MLC, ID("f"), SLC, SC("("), SC(")"), SC("{"), SC("}")>>,
      <<KW("int"), SLC, ID("x"), MLC, SC(";")>>,
      <<KW("const"), KW("while"), ID("x"), SC(";")>>,
      <<KW("const"), KW("const"), ID("x"), SC(";")>>,
      <<KW("const"), ID("f"), SC("("), SC(")"), SC(";")>> }

KindStreams ==
    { c.pre \o r \o c.post : c \in Contexts, r \in Runs } \cup SeedStreams

\* the token vector of a stream of kinds
Stream(kinds) ==
    [k \in 1..Len(kinds) |-> PToken(kinds[k].c, kinds[k].v, k)]

-----------------------------------------------------------------------------
(* The parser program: main loads tokens.txt into a vector (m_tokens),    *)
(* parses it and reports                                                   *)

\* main: tokens.empty(), "No tokens to parse. Halting."
ParserNoTokens ==
    /\ p_pc = "start"
    /\ m_tokens = <<>>
    /\ p_exit' = 1 /\ p_pc' = "exit"
    /\ UNCHANGED <<m_tokens, p_result, scan_vars>>

\* main: Parser parser(tokens); parser.parse()
ParserParse ==
    /\ p_pc = "start"
    /\ m_tokens # <<>>
    /\ p_result' = parse(m_tokens)
    /\ p_pc' = "parsed"
    /\ UNCHANGED <<m_tokens, p_exit, scan_vars>>

\* main: "Program is syntactically valid.", the tree is printed; return 0
ParserValid ==
    /\ p_pc = "parsed"
    /\ p_result.tree # NoNode
    /\ p_exit' = 0 /\ p_pc' = "exit"
    /\ UNCHANGED <<m_tokens, p_result, scan_vars>>

\* main: "Program has one or more syntax errors."; return 0
ParserSyntaxErrors ==
    /\ p_pc = "parsed"
    /\ p_result.tree = NoNode
    /\ p_exit' = 0 /\ p_pc' = "exit"
    /\ UNCHANGED <<m_tokens, p_result, scan_vars>>

ScannerIdle ==
    /\ source_code = <<>>
    /\ current_char_index = 0
    /\ current_line = 0
    /\ tokens = <<>>
    /\ spans = <<>>
    /\ unexpected_char_error = FALSE
    /\ unexpected_char = "NUL"
    /\ unterminated_comment_error = FALSE
    /\ s_pc = "idle"
    /\ s_exit = -1
    /\ tokens_txt = NoFile
    /\ loaded = NotLoaded

ParserInit ==
    /\ ScannerIdle
    /\ \E kinds \in KindStreams : m_tokens = Stream(kinds)
    /\ p_pc = "start"
    /\ p_result = NotParsed
    /\ p_exit = -1

ParserNext ==
    ParserNoTokens \/ ParserParse \/ ParserValid \/ ParserSyntaxErrors

ParserSpec == ParserInit /\ [][ParserNext]_vars

-----------------------------------------------------------------------------
(* The expression specification: parse_expression called on a token vector *)

\* longest run of tokens an expression is enumerated from
MaxExpr == 5

\* the kinds the enumerated expressions are drawn from
ExprKindSets ==
    { {ID("a"), NUM("1"), OP("-"), OP("*"), OP("=")},
      {ID("a"), OP("+"), OP("<"), OP("=="), OP("=")},
      {ID("a"), SC("("), SC(")"), OP("-"), OP("*")},
      {ID("a"), OP("/"), OP(">="), OP("!="), MLC},
      {ID("a"), SC("("), SC(")"), OP("="), OP("+")} }

\* the runs of at most MaxExpr kinds with at most MaxNest opening
\* parentheses, and two longer expressions over every level of precedence
ExprStreams ==
    { r \in UNION { UNION { [1..n -> A] : n \in 0..MaxExpr } : A \in ExprKindSets } :
        Cardinality({ k \in 1..Len(r) : r[k] = SC("(") }) <= MaxNest }
    \cup
    { <<SC("("), ID("a"), OP("+"), NUM("1"), SC(")"), OP("*"), ID("b"), OP("-"),
        ID("c"), OP("/"), NUM("2"), OP("<"), ID("d"), OP("=="), ID("e")>>,
      <<ID("a"), OP("="), ID("b"), OP("="), ID("c"), OP("-"), ID("d"), OP("-"),
        ID("e"), SC(";")>> }

ExprInit ==
    /\ ScannerIdle
    /\ \E kinds \in ExprStreams : m_tokens = Stream(kinds)
    /\ p_pc = "expression"
    /\ p_result = NotParsed
    /\ p_exit = -1

\* parse_expression() on a Parser just constructed on m_tokens; tree is
\* nullptr when it threw
ParseExpression ==
    /\ p_pc = "expression"
    /\ LET r == Call("parse_expression", m_tokens, NewParser)
       IN p_result' = [tree |-> r.node, diags |-> r.s.diags, pos |-> r.s.pos]
    /\ p_pc' = "expression_done"
    /\ UNCHANGED <<m_tokens, p_exit, scan_vars>>

ExprSpec == ExprInit /\ [][ParseExpression]_vars

-----------------------------------------------------------------------------
(* Properties of the scanner *)

IsComment(t) == t.token_class \in {"Single-Line Comment", "Multi-Line Comment"}

LastToken(toks) == toks[Len(toks)]

\* the scan ended with neither error flag, on a non-empty source
ScanOk ==
    source_code # <<>> /\ ~unexpected_char_error /\ ~unterminated_comment_error

\* C2 -- maximal munch: at a position past the whitespace, comment and '#'
\* checks, a three-character operator at the cursor is emitted whole and the
\* cursor moves three; failing that a two-character one, moving two; failing
\* both, a one-character operator, moving one.
C2_MaximalMunch ==
    [][ (AtLoopHead /\ PastChecks123) =>
        LET i == current_char_index IN
        IF i + 2 < SrcLen /\ SubSeq(source_code, i + 1, i + 3) \in multi_char_operators
        THEN /\ tokens' = Append(tokens, Token(SubSeq(source_code, i + 1, i + 3),
                                               "OPERATOR", current_line))
             /\ current_char_index' = i + 3
        ELSE IF i + 1 < SrcLen /\ SubSeq(source_code, i + 1, i + 2) \in multi_char_operators
        THEN /\ tokens' = Append(tokens, Token(SubSeq(source_code, i + 1, i + 2),
                                               "OPERATOR", current_line))
             /\ current_char_index' = i + 2
        ELSE IF At(i) \in single_char_operators
        THEN /\ tokens' = Append(tokens, Token(<<At(i)>>, "OPERATOR", current_line))
             /\ current_char_index' = i + 1
        ELSE TRUE ]_vars

\* "<<==" was scanned into "<<=" and "="
C2_Witness ==
    /\ s_pc = "main"
    /\ source_code = <<"<", "<", "=", "=">>
    /\ tokens = << Token(<<"<", "<", "=">>, "OPERATOR", 1),
                   Token(<<"=">>, "OPERATOR", 1) >>

\* the maximal run of digits and radix points that starts at index i
RECURSIVE RunEnd(_)
RunEnd(i) ==
    IF i < SrcLen /\ (isdigit(At(i)) \/ At(i) = ".") THEN RunEnd(i + 1) ELSE i

\* the segments of a run: it is cut before every radix point but its first
RECURSIVE RunSegments(_, _, _)
RunSegments(run, cur, dotted) ==
    IF run = <<>> THEN (IF cur = <<>> THEN <<>> ELSE <<cur>>)
    ELSE IF Head(run) = "." /\ dotted
         THEN <<cur>> \o RunSegments(Tail(run), <<".">>, TRUE)
         ELSE RunSegments(Tail(run), Append(cur, Head(run)),
                          dotted \/ Head(run) = ".")

\* a number begins at the cursor: a digit, or a radix point followed by a
\* digit, not preceded by a character of the same run
RunStartsAtCursor ==
    LET i == current_char_index IN
    /\ AtLoopHead
    /\ isdigit(At(i)) \/ (At(i) = "." /\ isdigit(Rd(i + 1)))
    /\ i > 0 => ~(isdigit(At(i - 1)) \/ At(i - 1) = ".")

\* C3 -- numeric segmentation: a run of digits and radix points that starts
\* at a dispatch position yields one NUMERIC CONSTANT per segment, in order,
\* and nothing else (0.2222.3333 gives 0.2222 and .3333).
C3_NumericSegmentation ==
    [][ RunStartsAtCursor =>
        LET i == current_char_index
            e == RunEnd(i)
            segs == RunSegments(SubSeq(source_code, i + 1, e), <<>>, FALSE)
        IN /\ current_char_index' = e
           /\ tokens' = tokens \o [k \in 1..Len(segs) |->
                                     Token(segs[k], "NUMERIC CONSTANT", current_line)]
      ]_vars

\* what load_tokens_from_file makes of a token the scanner wrote
AsLoaded(t) ==
    [token_class |-> ClassChars(t.token_class),
     token_value |-> t.token_value,
     line_number |-> t.line_number]

\* C4 -- round trip of the interchange format: the token list of an Ok scan,
\* written by the scanner and read back by load_tokens_from_file, is the same
\* list, token for token and field for field, and no line is skipped.
C4_RoundTrip ==
    (s_pc = "loaded" /\ s_exit = 0) =>
        /\ loaded.opened /\ ~loaded.crashed /\ loaded.warnings = 0
        /\ loaded.tokens = [k \in 1..Len(tokens) |-> AsLoaded(tokens[k])]

\* a list with a comma token, a directive holding commas or a token on line 10
C4_Witness ==
    /\ s_pc = "loaded" /\ s_exit = 0
    /\ Len(loaded.tokens) >= 2
    /\ \E k \in 1..Len(tokens) :
          /\ \E j \in 1..Len(tokens[k].token_value) : tokens[k].token_value[j] = ","
          /\ tokens[k].line_number >= 10

C8_FatalFirst ==
    unexpected_char_error =>
        /\ s_pc # "loop"
        /\ current_char_index < SrcLen
        /\ unexpected_char = At(current_char_index)
        /\ Len(spans) = Len(tokens)
        /\ \A k \in 1..Len(tokens) :
              /\ spans[k][1] < spans[k][2]
              /\ spans[k][2] <= current_char_index
              /\ ~IsComment(tokens[k]) =>
                    tokens[k].token_value = SubSeq(source_code, spans[k][1] + 1, spans[k][2])

\* an unexpected character with tokens before it and text after it
C8_Witness ==
    /\ unexpected_char_error
    /\ Len(tokens) >= 2
    /\ current_char_index + 1 < SrcLen

\* a closing */ starts at index j
CloserAt(j) == j + 1 < SrcLen /\ At(j) = "*" /\ At(j + 1) = "/"

\* C9 -- a block comment opened at index i ends the scan with the
\* unterminated-comment flag exactly when no "*/" starts at an index >= i+2;
\* otherwise one Multi-Line Comment token is emitted and the scan resumes
\* right after the first such "*/".
C9_UnterminatedComment ==
    [][ (AtLoopHead /\ ~isspace(currentChar) /\ IsBlockComment) =>
        LET i == current_char_index IN
        IF \E j \in (i + 2)..(SrcLen - 1) : CloserAt(j)
        THEN LET j == CHOOSE j \in (i + 2)..(SrcLen - 1) :
                          CloserAt(j) /\ \A h \in (i + 2)..(j - 1) : ~CloserAt(h)
             IN /\ ~unterminated_comment_error'
                /\ s_pc' = "loop"
                /\ current_char_index' = j + 2
                /\ Len(tokens') = Len(tokens) + 1
                /\ SubSeq(tokens', 1, Len(tokens)) = tokens
                /\ LastToken(tokens').token_class = "Multi-Line Comment"
        ELSE /\ unterminated_comment_error'
             /\ s_pc' = "main"
             /\ tokens' = tokens
      ]_vars

\* "/*/" is unterminated
C9_Witness ==
    /\ s_pc = "main"
    /\ unterminated_comment_error
    /\ Len(source_code) >= 3
    /\ SubSeq(source_code, Len(source_code) - 2, Len(source_code)) = <<"/", "*", "/">>

\* C10 -- the line numbers of the tokens, in emission order, never decrease.
C10_LinesNonDecreasing ==
    \A k \in 1..(Len(tokens) - 1) :
        tokens[k].line_number <= tokens[k + 1].line_number

\* a block comment spanning lines, followed by a token on a later line
C10_Witness ==
    /\ s_pc = "main"
    /\ \E k \in 1..(Len(tokens) - 1) :
          /\ tokens[k].token_class = "Multi-Line Comment"
          /\ tokens[k].line_number < tokens[k + 1].line_number

\* the number of newline characters at indices below i
NewlinesBelow(i) == Cardinality({ j \in 1..i : source_code[j] = "\n" })

\* the line on which index i lies
LineOf(i) == 1 + NewlinesBelow(i)

\* C11 -- comment line stamping: a comment token carries the line of its
\* opening "//" or "/*", however many newlines it spans, and the newlines
\* inside a block comment are counted for the token that follows it.
C11_CommentStamp ==
    /\ Len(spans) = Len(tokens)
    /\ \A k \in 1..Len(tokens) :
          /\ IsComment(tokens[k]) =>
                /\ SubSeq(source_code, spans[k][1] + 1, spans[k][1] + 2)
                        \in {<<"/", "/">>, <<"/", "*">>}
                /\ tokens[k].line_number = LineOf(spans[k][1])
          /\ (k > 1 /\ tokens[k - 1].token_class = "Multi-Line Comment") =>
                tokens[k].line_number = LineOf(spans[k][1])

\* a block comment opened on line 1 that holds a newline, the next token on
\* line 2, a single-line comment on a later line
C11_Witness ==
    /\ s_pc = "main"
    /\ \E k \in 1..(Len(tokens) - 1) :
          /\ tokens[k].token_class = "Multi-Line Comment"
          /\ tokens[k].line_number = 1
          /\ \E j \in (spans[k][1] + 1)..spans[k][2] : source_code[j] = "\n"
          /\ tokens[k + 1].line_number = 2
    /\ \E k \in 1..Len(tokens) :
          tokens[k].token_class = "Single-Line Comment" /\ tokens[k].line_number > 2

\* the dispatch reaches the operator and special-character tests at a '.'
\* that a digit follows
AtRadixPoint ==
    /\ AtLoopHead /\ PastChecks123
    /\ currentChar = "." /\ isdigit(Rd(current_char_index + 1))

\* C12 -- a number that starts with a radix point: at a '.' immediately
\* followed by a digit the scanner emits one NUMERIC CONSTANT made of the
\* '.' and the digits after it ('.5' gives NUMERIC CONSTANT '.5'), not a
\* SPECIAL CHARACTER '.'.
C12_RadixPointNumber ==
    [][ AtRadixPoint =>
        LET i == current_char_index
            e == DigitsEnd(i + 1)
        IN /\ Len(tokens') > Len(tokens)
           /\ SubSeq(tokens', 1, Len(tokens)) = tokens
           /\ tokens'[Len(tokens) + 1] =
                 Token(SubSeq(source_code, i + 1, e), "NUMERIC CONSTANT", current_line)
      ]_vars

\* the dispatch is past whitespace, comments and directives at a letter or '_'
AtWordStart ==
    /\ AtLoopHead /\ PastChecks123
    /\ isalpha(currentChar) \/ currentChar = "_"

\* C13 -- identifiers and keywords: at a letter or '_' the scanner emits
\* exactly one token, the maximal run of letters, digits and '_' from that
\* position, KEYWORD if the run is a reserved word and IDENTIFIER otherwise;
\* this for every word, those that begin with "pow" included.
C13_WordRule ==
    [][ AtWordStart =>
        LET i == current_char_index
            e == WordEnd(i)
            word == SubSeq(source_code, i + 1, e)
        IN /\ current_char_index' = e
           /\ tokens' = Append(tokens,
                               Token(word,
                                     IF word \in keywords THEN "KEYWORD" ELSE "IDENTIFIER",
                                     current_line))
      ]_vars

\* C19 -- the line counter: 0 after an empty source; for a non-empty source
\* it is, at every iteration of the main loop, 1 plus the number of newlines
\* below the cursor; every token has a line >= 1, that of its first
\* character; after an Ok scan the counter is 1 plus the newlines of the source.
C19_LineCounter ==
    /\ (source_code = <<>> /\ s_pc # "scan") => current_line = 0
    /\ (source_code # <<>> /\ s_pc = "loop") =>
          current_line = LineOf(current_char_index)
    /\ Len(spans) = Len(tokens)
    /\ \A k \in 1..Len(tokens) :
          /\ tokens[k].line_number >= 1
          /\ tokens[k].line_number = LineOf(spans[k][1])
    /\ (ScanOk /\ s_pc \in {"main", "exit", "loaded"}) =>
          current_line = LineOf(SrcLen)

\* an Ok scan of a source with blank lines and a token on a line above 2
C19_Witness ==
    /\ s_pc = "main" /\ ScanOk
    /\ current_line >= 4
    /\ \E j \in 1..(SrcLen - 1) : source_code[j] = "\n" /\ source_code[j + 1] = "\n"
    /\ \E k \in 1..Len(tokens) : tokens[k].line_number >= 3

\* the dispatch is at a single quote followed by exactly one alphanumeric
\* character and then a character that is neither alphanumeric nor '_'
AtQuotedCharacter ==
    /\ AtLoopHead
    /\ currentChar = "'"
    /\ current_char_index + 2 < SrcLen
    /\ isalnum(At(current_char_index + 1))
    /\ ~isalnum(At(current_char_index + 2))
    /\ At(current_char_index + 2) # "_"

\* C23 -- the CHAR_LITERAL side-path: at a single quote followed by exactly
\* one alphanumeric character and then a character that is neither
\* alphanumeric nor '_', the scanner emits a SPECIAL CHARACTER token for the
\* quote and a CHAR_LITERAL token whose value is that character, and does
\* not end the scan with an unexpected-character error.
C23_CharLiteral ==
    [][ AtQuotedCharacter =>
        /\ tokens' = tokens \o
              << Token(<<"'">>, "SPECIAL CHARACTER", current_line),
                 Token(<<At(current_char_index + 1)>>, "CHAR_LITERAL", current_line) >>
        /\ ~unexpected_char_error'
      ]_vars

\* the dispatch has reached the numeric rule
AtNumber == AtLoopHead /\ PastChecks123 /\ IsNumber

\* the concatenation of the values of the tokens toks
RECURSIVE Concatenation(_)
Concatenation(toks) ==
    IF toks = <<>> THEN <<>> ELSE Head(toks).token_value \o Concatenation(Tail(toks))

\* how many times the character c occurs in the text s
Occurrences(s, c) == Cardinality({ k \in 1..Len(s) : s[k] = c })

\* C27 -- well-formed numeric tokens: the tokens the numeric rule emits for
\* one run of digits and '.' are NUMERIC CONSTANT tokens whose values each
\* hold at least one digit and at most one '.', and their concatenation is
\* the run, no character dropped or duplicated (runs such as '1..2' and
\* '1.2.' included).
C27_NumericTokens ==
    [][ AtNumber =>
        LET emitted == SubSeq(tokens', Len(tokens) + 1, Len(tokens'))
            run == SubSeq(source_code, current_char_index + 1, RunEnd(current_char_index))
        IN /\ SubSeq(tokens', 1, Len(tokens)) = tokens
           /\ \A k \in 1..Len(emitted) :
                 /\ emitted[k].token_class = "NUMERIC CONSTANT"
                 /\ \E j \in 1..Len(emitted[k].token_value) :
                       isdigit(emitted[k].token_value[j])
                 /\ Occurrences(emitted[k].token_value, ".") <= 1
           /\ Concatenation(emitted) = run
      ]_vars

\* the indices at which one iteration of scan's main loop, entered in this
\* state, reads source_code: operator [] and substr, in the order and under
\* the tests of the code, && and || evaluated left to right
ReadIndices ==
    LET i == current_char_index
        UpTo(e) == i..(IF e < SrcLen THEN e ELSE SrcLen - 1)
        closer == SkipBlockComment(i + 2, current_line).index
    IN {i}
       \cup (IF HasNext THEN {i + 1} ELSE {})
       \cup (IF IsLineComment THEN UpTo(SkipToNewline(i)) ELSE {})
       \cup (IF IsBlockComment
             THEN { k \in (i + 2)..closer : k + 1 < SrcLen }
                  \cup { k + 1 : k \in { j \in (i + 2)..closer :
                                           j + 1 < SrcLen /\ At(j) = "*" } }
             ELSE {})
       \cup (IF ~isspace(currentChar) /\ ~IsLineComment /\ ~IsBlockComment /\ IsDirective
             THEN UpTo(SkipToNewline(i)) ELSE {})
       \cup (IF PastChecks123 /\ i + 2 < SrcLen THEN i..(i + 2) ELSE {})
       \cup (IF PastChecks123 /\ ~IsTripleOp /\ i + 1 < SrcLen THEN i..(i + 1) ELSE {})
       \cup (IF PastChecks123 /\ IsSpecial /\ currentChar = "'"
             THEN {i + 1} \cup (IF isalnum(Rd(i + 1)) THEN {i + 2} ELSE {})
             ELSE {})
       \cup (IF PastChecks123 /\ IsWord THEN UpTo(WordEnd(i)) ELSE {})
       \cup (IF /\ PastChecks123 /\ PastCheck4 /\ ~IsWord
                /\ ~isdigit(currentChar) /\ currentChar = "."
             THEN {i + 1} ELSE {})
       \cup (IF PastChecks123 /\ IsNumber THEN UpTo(RunEnd(i)) ELSE {})

\* C29 -- scanner bounds safety: every read of source_code that an
\* iteration of scan performs is at an index below the length of the text;
\* the lookahead of the quote test and the lookahead of the test for a '.'
\* followed by a digit read nothing at or past the end.
C29_ReadsInBounds ==
    AtLoopHead => \A j \in ReadIndices : 0 <= j /\ j < SrcLen

\* the loop is at a '.' that is the last character of the text, tokens
\* emitted before it
C29_Witness ==
    /\ AtLoopHead
    /\ tokens # <<>>
    /\ current_char_index = SrcLen - 1
    /\ currentChar = "."

\* scan has returned to main
ScanReturned == s_pc \notin {"scan", "loop"}

\* the three states a scan ends in
EndsOk ==
    /\ current_char_index = SrcLen
    /\ ~unexpected_char_error /\ ~unterminated_comment_error
EndsUnexpected == unexpected_char_error /\ ~unterminated_comment_error
EndsUnterminated == unterminated_comment_error /\ ~unexpected_char_error

\* C30 -- scanner termination: every iteration of the main loop moves the
\* cursor forward by at least one character or leaves the loop with an error
\* flag set; scan returns; and it returns in exactly one of three states:
\* Ok (cursor at the end, no flag), unexpected character (that flag alone),
\* unterminated block comment (that flag alone).
C30_ScannerTerminates ==
    /\ [][ AtLoopHead =>
             \/ current_char_index' > current_char_index /\ s_pc' = "loop"
             \/ /\ s_pc' = "main"
                /\ unexpected_char_error' \/ unterminated_comment_error'
         ]_vars
    /\ [](s_pc = "main" => (EndsOk \/ EndsUnexpected \/ EndsUnterminated))
    /\ <>ScanReturned

\* a scan that has returned Ok after a comment, a directive and a number
C30_Witness ==
    /\ s_pc = "main"
    /\ EndsOk
    /\ \E k \in 1..Len(tokens) : tokens[k].token_class = "Multi-Line Comment"
    /\ \E k \in 1..Len(tokens) : tokens[k].token_class = "OPERATOR"
    /\ Len(tokens) >= 4

-----------------------------------------------------------------------------
(* Properties of the loader *)

\* the lines of the token file
FileLinesRead == GetLines(tokens_txt.content)

\* load_tokens_from_file has returned
Loaded == s_pc = "loaded" /\ loaded.opened /\ ~loaded.crashed

\* C17 -- loader warnings: every line the loader skips, be it shorter than
\* 5 characters, without two distinct commas or with an unparseable line
\* number, is reported by a warning; no line is skipped silently.
C17_SkippedLinesWarned ==
    Loaded => loaded.warnings = Len(FileLinesRead) - Len(loaded.tokens)

\* s is a decimal number: digits and nothing else
IsDecimal(s) == s # <<>> /\ \A k \in 1..Len(s) : isdigit(s[k])

\* the line has the frame of a token line: '<' first, '>' last, and a last
\* field, after the last ", ", that is a decimal number
WellFramed(line) ==
    /\ Len(line) >= 5
    /\ line[1] = "<" /\ line[Len(line)] = ">"
    /\ find_comma(line) # NPOS /\ find_comma(line) # rfind_comma(line)
    /\ rfind_comma(line) + 2 < Len(line)
    /\ line[rfind_comma(line) + 2] = " "
    /\ IsDecimal(SubSeq(line, rfind_comma(line) + 3, Len(line) - 1))

\* C18 -- bad framing is rejected: a line becomes a token only if it begins
\* with '<', ends with '>' and its last field is a decimal number; every
\* other line is skipped and the lines after it are still loaded, in file
\* order.
C18_FramingRejected ==
    s_pc = "loaded" /\ loaded.opened =>
        /\ ~loaded.crashed
        /\ \A k \in 1..Len(FileLinesRead) :
              LoadLine(FileLinesRead[k]).kind = "token" => WellFramed(FileLinesRead[k])
        /\ Len(loaded.tokens) <= Len(SelectSeq(FileLinesRead, WellFramed))

-----------------------------------------------------------------------------
(* Properties of the parser *)

IsMeaningful(t) == t.token_class \notin CommentClasses

\* the stream a stream with comments was obtained from
StripComments(T) == SelectSeq(T, IsMeaningful)

\* the parse of m_tokens has returned
Parsed == p_pc \in {"parsed", "exit"} /\ m_tokens # <<>>

\* C1 -- comment transparency: the parse of a stream and the parse of the
\* same stream without its comment tokens have the same outcome, both fail
\* or both return equal trees.
C1_CommentTransparency ==
    Parsed => p_result.tree = parse(StripComments(m_tokens)).tree

\* C5 -- a failed parse has written exactly one diagnostic, "[Line N]" or
\* "[End of File]", and returned no tree; a successful parse has written none.
C5_OneDiagnostic ==
    Parsed =>
        IF p_result.tree = NoNode
        THEN /\ Len(p_result.diags) = 1
             /\ \/ p_result.diags[1].where = "End of File"
                \/ /\ p_result.diags[1].where = "Line"
                   /\ p_result.diags[1].line \in 1..Len(m_tokens)
        ELSE p_result.diags = <<>>

\* a failure raised at the end of the vector, in parse_primary under a
\* function body, with tokens consumed before it
C5_Witness ==
    /\ p_pc = "parsed"
    /\ p_result.tree = NoNode
    /\ Len(p_result.diags) = 1
    /\ p_result.diags[1].where = "End of File"
    /\ p_result.diags[1].by = "parse_primary"
    /\ Len(m_tokens) >= 6

\* C6 -- the parser program exits with 0 when the parse succeeds, with 1
\* when there are no tokens or the parse ends in a syntax error.
C6_ExitStatus ==
    p_pc = "exit" =>
        p_exit = IF m_tokens # <<>> /\ p_result.tree # NoNode THEN 0 ELSE 1

\* a tree without its line numbers
RECURSIVE Shape(_)
Shape(n) ==
    [type |-> n.type, value |-> n.value,
     children |-> [k \in 1..Len(n.children) |-> Shape(n.children[k])]]

\* the depth of parentheses in which the token at index k of E stands
ParenDepth(E, k) ==
    Cardinality({ j \in 1..(k - 1) : E[j].token_value = "(" })
        - Cardinality({ j \in 1..(k - 1) : E[j].token_value = ")" })

\* where an operator among ops stands outside every parenthesis
TopLevel(E, ops) ==
    { k \in 1..Len(E) : E[k].token_value \in ops /\ ParenDepth(E, k) = 0 }

Least(S) == CHOOSE x \in S : \A y \in S : x <= y
Greatest(S) == CHOOSE x \in S : \A y \in S : y <= x

\* the levels of binary operators, loosest first
BinaryLevels == << {"==", "!="}, {"<", ">", "<=", ">="}, {"+", "-"}, {"*", "/"} >>

\* the tree the reference grammar gives the expression E, by splitting E at
\* its loosest operator: the first '=' outside parentheses, or else the last
\* operator of the loosest binary level there is
RECURSIVE RefTree(_)
RECURSIVE RefBinary(_, _)
RefBinary(E, level) ==
    IF level > Len(BinaryLevels)
    THEN IF Len(E) = 1 /\ E[1].token_class = "NUMERIC CONSTANT"
         THEN [type |-> "Constant", value |-> E[1].token_value, children |-> <<>>]
         ELSE IF Len(E) = 1 /\ E[1].token_class = "IDENTIFIER"
         THEN [type |-> "Identifier", value |-> E[1].token_value, children |-> <<>>]
         ELSE IF Len(E) >= 3 /\ E[1].token_value = "(" /\ E[Len(E)].token_value = ")"
         THEN RefTree(SubSeq(E, 2, Len(E) - 1))
         ELSE [type |-> "none", value |-> "", children |-> <<>>]
    ELSE IF TopLevel(E, BinaryLevels[level]) = {}
    THEN RefBinary(E, level + 1)
    ELSE LET k == Greatest(TopLevel(E, BinaryLevels[level]))
         IN [type |-> "BinaryExpression", value |-> E[k].token_value,
             children |-> << RefBinary(SubSeq(E, 1, k - 1), level),
                             RefBinary(SubSeq(E, k + 1, Len(E)), level + 1) >>]

RefTree(E) ==
    IF TopLevel(E, {"="}) = {}
    THEN RefBinary(E, 1)
    ELSE LET k == Least(TopLevel(E, {"="}))
         IN [type |-> "AssignmentExpression", value |-> "=",
             children |-> << RefBinary(SubSeq(E, 1, k - 1), 1),
                             RefTree(SubSeq(E, k + 1, Len(E))) >>]

\* parse_expression returned a node, having read the first pos tokens
ExpressionAccepted == p_pc = "expression_done" /\ p_result.tree # NoNode

\* C14 -- the shape of expression trees: the tree parse_expression returns
\* for the tokens it read is the tree of the reference grammar: levels
\* {*,/}, {+,-}, {<,>,<=,>=}, {==,!=}, {=} from tightest to loosest, binary
\* operators nesting to the left, '=' to the right, parentheses leaving no
\* node, the operator in value and the two operands as children in order.
C14_ExpressionShape ==
    ExpressionAccepted =>
        Shape(p_result.tree) =
            RefTree(StripComments(SubSeq(m_tokens, 1, p_result.pos)))

\* the longer expression "(a + 1) * b - c / 2 < d == e", read to its end
C14_Witness ==
    /\ ExpressionAccepted
    /\ p_result.pos = 15
    /\ p_result.tree.type = "BinaryExpression" /\ p_result.tree.value = "=="
    /\ p_result.tree.children[1].value = "<"
    /\ p_result.tree.children[1].children[1].value = "-"
    /\ p_result.tree.children[1].children[1].children[1].value = "*"
    /\ p_result.tree.children[1].children[1].children[1].children[1].value = "+"

\* the nodes of the tree rooted at n
RECURSIVE Nodes(_)
Nodes(n) == {n} \cup UNION { Nodes(n.children[k]) : k \in 1..Len(n.children) }

ExpressionTypes ==
    {"Constant", "Identifier", "BinaryExpression", "AssignmentExpression"}

StatementTypes ==
    {"IfStatement", "ForStatement", "ReturnStatement", "BlockStatement",
     "EmptyStatement", "VariableDeclarationStatement", "ExpressionStatement"}

\* the parse returned a tree
Accepted == Parsed /\ p_result.tree # NoNode

\* the first token that is not a comment at an index above i, EOF if none
NextToken(T, i) == Cur(T, [pos |-> SkipCommentsFrom(T, i)])

\* the index of that token
NextIndex(T, i) == SkipCommentsFrom(T, i) + 1

\* the slot is empty, marked by name, or holds a node of one of the types
Slot(n, name, types) ==
    \/ n.type = "Empty" /\ n.value = name /\ n.children = <<>>
    \/ n.type \in types

\* C15 -- the shape of ForStatement: four children, in the order
\* initializer, condition, increment, body; an empty slot is an Empty node
\* named after the slot, a condition or an increment that is there is the
\* expression node itself.
C15_ForShape ==
    Accepted =>
        \A n \in Nodes(p_result.tree) :
            n.type = "ForStatement" =>
                /\ Len(n.children) = 4
                /\ Slot(n.children[1], "initializer",
                        {"VariableDeclarationStatement", "ExpressionStatement"})
                /\ Slot(n.children[2], "condition", ExpressionTypes)
                /\ Slot(n.children[3], "increment", ExpressionTypes)
                /\ n.children[4].type \in StatementTypes
                /\ m_tokens[n.line].token_value = "for"
                /\ n.children[1].type = "Empty" <=>
                      NextToken(m_tokens, NextIndex(m_tokens, n.line)).token_value = ";"

\* "for ( ; x ; ) ;": no initializer, a condition, no increment
C15_Witness ==
    /\ p_pc = "parsed" /\ p_result.tree # NoNode
    /\ \E n \in Nodes(p_result.tree) :
          /\ n.type = "ForStatement"
          /\ n.children[1].type = "Empty"
          /\ n.children[2].type = "Identifier"
          /\ n.children[3].type = "Empty"
          /\ n.children[4].type = "EmptyStatement"

\* a declarator: no child, or one Initializer holding one expression
IsDeclarator(d) ==
    /\ d.type = "Declarator"
    /\ \/ d.children = <<>>
       \/ /\ Len(d.children) = 1
          /\ d.children[1].type = "Initializer"
          /\ Len(d.children[1].children) = 1
          /\ d.children[1].children[1].type \in ExpressionTypes

\* C16 -- the shape of VariableDeclarationStatement: at most one
\* Keyword(const), then one TypeSpecifier, then one Declarator for each
\* declared variable, at least one, in source order; a Declarator has no
\* child or one Initializer, whose one child is the initializer expression.
C16_DeclarationShape ==
    Accepted =>
        \A n \in Nodes(p_result.tree) :
            n.type = "VariableDeclarationStatement" =>
                LET c == n.children
                    h == IF c # <<>> /\ c[1].type = "Keyword" THEN 1 ELSE 0
                IN /\ Len(c) >= h + 2
                   /\ h = 1 => c[1].value = "const" /\ c[1].children = <<>>
                   /\ c[h + 1].type = "TypeSpecifier" /\ c[h + 1].children = <<>>
                   /\ \A k \in (h + 2)..Len(c) :
                         /\ IsDeclarator(c[k])
                         /\ m_tokens[c[k].line].token_class = "IDENTIFIER"
                         /\ m_tokens[c[k].line].token_value = c[k].value
                         /\ k < Len(c) => c[k].line < c[k + 1].line

\* "const int x = 1, y;"
C16_Witness ==
    /\ p_pc = "parsed" /\ p_result.tree # NoNode
    /\ \E n \in Nodes(p_result.tree) :
          /\ n.type = "VariableDeclarationStatement"
          /\ Len(n.children) = 4
          /\ n.children[1].type = "Keyword"
          /\ n.children[3].children # <<>>
          /\ n.children[4].children = <<>>

\* C20 -- match is the only place that raises: the diagnostic of every
\* failed parse was written by Parser::match, and no grammar function
\* reported an error and raised on its own.
C20_OnlyMatchRaises ==
    (Parsed /\ p_result.tree = NoNode) =>
        \A k \in 1..Len(p_result.diags) : p_result.diags[k].by = "match"

\* the parser with its cursor at position p of T, nothing raised
CursorAt(p) == [pos |-> p, failed |-> FALSE, diags |-> <<>>, matched |-> <<>>]

\* the state s has left the cursor after position p, or has raised
Advanced(s, p) == s.failed \/ s.pos > p

\* one iteration of the while loop of parse_program entered at cursor p
ProgramIteration(T, p) ==
    ~is_at_end(T, CursorAt(p)) =>
        Advanced(Call("parse_top_level_declaration", T, CursorAt(p)).s, p)

\* one iteration of the while loop of parse_block_statement
BlockIteration(T, p) ==
    Cur(T, Peek(T, CursorAt(p))).token_value # "}" =>
        Advanced(Call("parse_statement", T, Peek(T, CursorAt(p))).s, p)

\* one iteration of the do-while loop of parse_variable_declaration
DeclaratorIteration(T, p) ==
    LET var_token == match(T, declarator_comma(T, Peek(T, CursorAt(p))), "IDENTIFIER", "")
    IN Advanced(declarator(T, var_token, Peek(T, var_token.s)).s, p)

\* one iteration of the while loop of a binary-expression function whose
\* operators are ops and whose operands are parsed by operand
BinaryIteration(T, p, ops, operand) ==
    Cur(T, Peek(T, CursorAt(p))).token_value \in ops =>
        Advanced(Call(operand, T, match(T, Peek(T, CursorAt(p)), "OPERATOR", "").s).s, p)

\* the parser has been constructed on m_tokens and parse not yet called
Constructed == p_pc = "start"

\* every loop of the parser, entered at any cursor of m_tokens, advances or raises
LoopsAdvance ==
    \A p \in 0..Len(m_tokens) :
        /\ ProgramIteration(m_tokens, p)
        /\ BlockIteration(m_tokens, p)
        /\ DeclaratorIteration(m_tokens, p)
        /\ BinaryIteration(m_tokens, p, {"==", "!="}, "parse_relational")
        /\ BinaryIteration(m_tokens, p, {"<", ">", "<=", ">="}, "parse_additive")
        /\ BinaryIteration(m_tokens, p, {"+", "-"}, "parse_multiplicative")
        /\ BinaryIteration(m_tokens, p, {"*", "/"}, "parse_primary")

\* C21 -- parser termination: on every token vector a parser is constructed
\* on, every iteration of the loops of parse_program, parse_block_statement,
\* parse_variable_declaration and the binary-expression functions, entered
\* at any cursor of the vector, advances the cursor by at least one token or
\* raises; and a parse that has returned has returned a tree or a failure,
\* with the cursor inside the vector.
C21_ParserTerminates ==
    /\ Constructed => LoopsAdvance
    /\ Parsed =>
          /\ p_result.pos \in 0..Len(m_tokens)
          /\ (p_result.tree = NoNode) = (p_result.diags # <<>>)

\* a parse that has returned a failure at the end of a vector that stops
\* inside a block
C21_Witness ==
    /\ p_pc = "parsed"
    /\ p_result.tree = NoNode
    /\ p_result.pos = Len(m_tokens)
    /\ p_result.diags[1].where = "End of File"
    /\ Cardinality({ k \in 1..Len(m_tokens) : m_tokens[k].token_value = "{" })
         > Cardinality({ k \in 1..Len(m_tokens) : m_tokens[k].token_value = "}" })

\* the indices of the non-comment tokens of T at or after cursor p
MeaningfulFrom(T, p) == { i \in (p + 1)..Len(T) : IsMeaningful(T[i]) }

\* the k-th non-comment token ahead of cursor p (k = 0: the next one), or
\* the EOF sentinel when fewer than k + 1 remain
RECURSIVE TokenAhead(_, _, _)
TokenAhead(T, p, k) ==
    IF p >= Len(T) THEN eof_token
    ELSE IF ~IsMeaningful(T[p + 1]) THEN TokenAhead(T, p + 1, k)
    ELSE IF k = 0 THEN T[p + 1]
    ELSE TokenAhead(T, p + 1, k - 1)

\* the offsets lookahead is asked for
Offsets == 0..3

\* every operation that moves the cursor, at cursor p, leaves it in p..Len(T)
CursorMoves(T, p) ==
    /\ skip_comments(T, CursorAt(p)).pos \in p..Len(T)
    /\ advance(T, CursorAt(p)).pos \in p..Len(T)
    /\ \A class \in {"KEYWORD", "IDENTIFIER", "OPERATOR", "SPECIAL CHARACTER"} :
          match(T, CursorAt(p), class, "").s.pos \in p..Len(T)
    /\ report_error(T, CursorAt(p), <<>>, "").pos \in p..Len(T)

\* C22 -- cursor safety: on every token vector that has been parsed, from
\* every cursor 0..size the operations that move the cursor leave it in
\* cursor..size; peek returns the next non-comment
\* token and lookahead(k) the k-th non-comment token ahead, the EOF sentinel
\* exactly when fewer than k + 1 non-comment tokens remain, never a comment;
\* and the cursor a parse leaves is within 0..size.
C22_CursorSafety ==
    /\ p_pc = "parsed" => \A p \in 0..Len(m_tokens) :
          /\ CursorMoves(m_tokens, p)
          /\ Cur(m_tokens, Peek(m_tokens, CursorAt(p))) = TokenAhead(m_tokens, p, 0)
          /\ \A k \in Offsets :
                LET token == lookahead(m_tokens, Peek(m_tokens, CursorAt(p)), k)
                IN /\ token = TokenAhead(m_tokens, p, k)
                   /\ token.token_class \notin CommentClasses
                   /\ (token = eof_token) = (Cardinality(MeaningfulFrom(m_tokens, p)) < k + 1)
    /\ Parsed => p_result.pos \in 0..Len(m_tokens)

\* a parse in which lookahead(2) met comments between the type, the name
\* and the parenthesis, and whose last peek skipped a comment to the end of
\* the vector and returned the sentinel
C22_Witness ==
    /\ p_pc = "parsed"
    /\ p_result.pos = Len(m_tokens)
    /\ Len(m_tokens) >= 4
    /\ m_tokens[1].token_class = "KEYWORD"
    /\ m_tokens[2].token_class \in CommentClasses
    /\ TokenAhead(m_tokens, 0, 2).token_value = "("
    /\ m_tokens[Len(m_tokens)].token_class \in CommentClasses
    /\ p_result.diags # <<>>
    /\ p_result.diags[1].where = "End of File"

\* m_tokens is a vector with comment tokens, none of them after its last
\* non-comment token
InteriorComments ==
    /\ m_tokens # <<>>
    /\ IsMeaningful(m_tokens[Len(m_tokens)])
    /\ \E k \in 1..Len(m_tokens) : ~IsMeaningful(m_tokens[k])

\* C24 -- interior comment transparency: a vector whose comment tokens all
\* come before its last non-comment token is parsed as the vector without
\* them is: the same tree is returned, or both parses fail with the same
\* diagnostic.
C24_InteriorComments ==
    (Parsed /\ InteriorComments) =>
        LET plain == parse(StripComments(m_tokens))
        IN /\ p_result.tree = plain.tree
           /\ p_result.diags = plain.diags

\* an accepted function definition with a comment between the type and the
\* name and another between the name and the parenthesis
C24_Witness ==
    /\ p_pc = "parsed"
    /\ InteriorComments
    /\ p_result.tree # NoNode
    /\ Len(m_tokens) >= 8
    /\ ~IsMeaningful(m_tokens[2])
    /\ ~IsMeaningful(m_tokens[4])
    /\ TokenAhead(m_tokens, 0, 2).token_value = "("
    /\ p_result.tree.children[1].type = "FunctionDefinition"

\* the operators of the grammar
GrammarOperators == {"=", "==", "!=", "<", ">", "<=", ">=", "+", "-", "*", "/"}

\* the positions (from 0) of the non-comment tokens of T, in stream order
RECURSIVE MeaningfulPositions(_, _)
MeaningfulPositions(T, p) ==
    IF p >= Len(T) THEN <<>>
    ELSE IF IsMeaningful(T[p + 1]) THEN <<p>> \o MeaningfulPositions(T, p + 1)
    ELSE MeaningfulPositions(T, p + 1)

\* C25 -- complete consumption on success: when parse returns a tree the
\* cursor is at the end of the vector and every non-comment token has been
\* returned by exactly one successful match, in stream order; so no vector
\* that holds an OPERATOR token whose value is not an operator of the
\* grammar is accepted.
C25_CompleteConsumption ==
    Accepted =>
        /\ p_result.pos = Len(m_tokens)
        /\ Call("parse_program", m_tokens, NewParser).s.matched
              = MeaningfulPositions(m_tokens, 0)
        /\ \A k \in 1..Len(m_tokens) :
              m_tokens[k].token_class = "OPERATOR" =>
                  m_tokens[k].token_value \in GrammarOperators

\* an accepted program with comments, declarations, statements and
\* operators of three levels
C25_Witness ==
    /\ p_pc = "parsed"
    /\ p_result.tree # NoNode
    /\ Len(m_tokens) >= 40
    /\ \E k \in 1..Len(m_tokens) : ~IsMeaningful(m_tokens[k])
    /\ { "==", "-", "=" } \subseteq
          { m_tokens[k].token_value : k \in { j \in 1..Len(m_tokens) :
                                                m_tokens[j].token_class = "OPERATOR" } }

\* the type names of the grammar
TypeNames == {"int", "float", "char", "void"}

\* C26 -- type specifier validity: in every tree parse returns, every
\* TypeSpecifier node has a value in {int, float, char, void}; a declaration
\* with any other keyword in its type position is rejected.
C26_TypeSpecifiers ==
    Accepted =>
        \A n \in Nodes(p_result.tree) :
            n.type = "TypeSpecifier" => n.value \in TypeNames

\* C28 -- diagnostic position: the diagnostic of a failed parse is
\* "[End of File]" exactly when no non-comment token remains at or after
\* the cursor, and otherwise "[Line N]" with N the line number of the first
\* non-comment token at the cursor; the line -1 of the EOF sentinel is never
\* printed, also when only comment tokens remain.
C28_DiagnosticPosition ==
    (Parsed /\ p_result.tree = NoNode) =>
        /\ p_result.diags # <<>>
        /\ \A k \in 1..Len(p_result.diags) :
              LET d == p_result.diags[k]
                  remaining == MeaningfulFrom(m_tokens, p_result.pos)
              IN /\ (d.where = "End of File") = (remaining = {})
                 /\ d.where \in {"End of File", "Line"}
                 /\ d.where = "Line" =>
                       /\ d.line = TokenAhead(m_tokens, p_result.pos, 0).line_number
                       /\ d.line # -1

\* a parse that failed where only comment tokens remained, two of them
C28_Witness ==
    /\ p_pc = "parsed"
    /\ p_result.tree = NoNode
    /\ Len(m_tokens) >= 3
    /\ ~IsMeaningful(m_tokens[Len(m_tokens)])
    /\ ~IsMeaningful(m_tokens[Len(m_tokens) - 1])
    /\ IsMeaningful(m_tokens[Len(m_tokens) - 2])
    /\ p_result.diags[1].where = "End of File"
    /\ p_result.pos = Len(m_tokens)

====
